---- MODULE Spec2Model ----
(***************************************************************************)
(* A model of the Oman-events Wikipedia generator (src/src/wiki_generator.py). *)
(*                                                                         *)
(* Strings are sequences of tokens.  A token is one character of caller    *)
(* or service supplied text ("a", " ", "\n", ...) or one literal fragment  *)
(* of a template of the source, kept whole.  Python's None, where a string *)
(* is expected, is the one-token sequence NoneS.                           *)
(***************************************************************************)
EXTENDS Naturals, Integers, Sequences, FiniteSets, TLC

VARIABLES
    gen,      \* the WikiGenerator object: NoGen, or [api_key, model, client]
    op,       \* the top-level operation invoked last, with its arguments
    pc,       \* where that operation stands: idle, await, loop, await_image, done
    calls,    \* the completion calls the operation has issued, with their responses
    locals,   \* its local variables: loop index, results dict, article
    ret,      \* its outcome: NoRet, a returned value or a raised exception
    files,    \* the file system a command writes to: a set of [path, content]
    hist,     \* what a session of invocations has counted so far
    reqs      \* the HTTP requests that have arrived, each with its handler's frame

vars == <<gen, op, pc, calls, locals, ret, files, hist, reqs>>

-----------------------------------------------------------------------------
(* Bounds of the model. *)

MaxBatch == 3
MaxInvocations == 3
MaxEvents == 2
MaxRequests == 3

-----------------------------------------------------------------------------
(* Python values. *)

NoneS == <<"<None>">>
NoGen == [none |-> TRUE]
NoRet == [kind |-> "none"]
NoResp == [kind |-> "pending"]

\* Python truthiness of an Optional[str]: None and "" are falsy.
Truthy(s) == s # NoneS /\ s # <<>>

\* a or b
PyOr(a, b) == IF Truthy(a) THEN a ELSE b

\* sub in s
Contains(s, sub) ==
    \E i \in 0..(Len(s) - Len(sub)) : SubSeq(s, i + 1, i + Len(sub)) = sub

IsSpace(c) == c \in {" ", "\n", "\t"}

RECURSIVE LStrip(_)
LStrip(s) == IF s # <<>> /\ IsSpace(Head(s)) THEN LStrip(Tail(s)) ELSE s

RECURSIVE RStrip(_)
RStrip(s) ==
    IF s # <<>> /\ IsSpace(s[Len(s)]) THEN RStrip(SubSeq(s, 1, Len(s) - 1)) ELSE s

\* str.strip()
Strip(s) == RStrip(LStrip(s))

Digit(d) == <<"0", "1", "2", "3", "4", "5", "6", "7", "8", "9">>[d + 1]

RECURSIVE NatStr(_)
NatStr(n) == IF n < 10 THEN <<Digit(n)>> ELSE NatStr(n \div 10) \o <<Digit(n % 10)>>

\* str(n) of an int
IntStr(n) == IF n < 0 THEN <<"-">> \o NatStr(0 - n) ELSE NatStr(n)

Return(v) == [kind |-> "return", value |-> v]
Raise(t, m) == [kind |-> "raise", type |-> t, msg |-> m]

-----------------------------------------------------------------------------
(* WikiGenerator: class constants and construction. *)

SUPPORTED_LANGUAGES == {<<"e", "n">>, <<"a", "r">>}

EN == <<"e", "n">>
AR == <<"a", "r">>

DefaultModel == <<"gpt-4">>

\* OpenAI(api_key=...)
OpenAI(api_key) == [api_key |-> api_key]

\* A constructor that looks in the environment first.
InitGeneratorEnvFirst(api_key, model, env_key, env_model) ==
    LET key == IF env_key # NoneS /\ env_key # <<>> THEN env_key ELSE api_key
        mdl == IF env_model # NoneS THEN env_model
               ELSE IF model # <<>> THEN model ELSE <<"gpt-4">>
    IN  IF key = NoneS \/ key = <<>>
        THEN [exc |-> [kind |-> "raise", type |-> "ValueError",
                       msg |-> <<"OpenAI API key not found. Please set OPENAI_API_KEY in .env file or pass it as an argument.">>],
              obj |-> NoGen]
        ELSE [exc |-> NoRet,
              obj |-> [api_key |-> key, model |-> mdl, client |-> [api_key |-> key]]]

\* WikiGenerator.__init__(api_key, model) in an environment whose
\* OPENAI_API_KEY and OPENAI_MODEL read env_key and env_model (None if unset).
\* The outcome is [exc, obj]: the exception raised, or the object built.
InitGenerator(api_key, model, env_key, env_model) ==
    LET key == PyOr(api_key, env_key)
        mdl == PyOr(model, IF env_model = NoneS THEN DefaultModel ELSE env_model)
    IN  IF ~Truthy(key)
        THEN [exc |-> Raise("ValueError",
                        <<"OpenAI API key not found. Please set OPENAI_API_KEY in .env file or pass it as an argument.">>),
              obj |-> NoGen]
        ELSE [exc |-> NoRet,
              obj |-> [api_key |-> key, model |-> mdl, client |-> OpenAI(key)]]

-----------------------------------------------------------------------------
(* Prompt building. *)

\* WikiGenerator._get_system_prompt
GetSystemPrompt(language) ==
    IF language = AR
    THEN <<"<ar: You are an expert Wikipedia article writer specializing in Omani history, culture, and events. Write comprehensive, well-structured, and factual articles.>">>
    ELSE <<"You are an expert Wikipedia article writer specializing in Omani history, culture, and events. Write comprehensive, well-structured, and factual articles.">>

\* An article prompt that leaves the event name out.
BuildPromptNoSubject(event_name, context, style, language) ==
    <<"Write a comprehensive ", "Wikipedia-style article", " about an event in Oman.\n\nStyle: ">>
    \o style
    \o (IF context # NoneS /\ context # <<>> THEN <<"\nAdditional context: ">> \o context
        ELSE <<>>)

\* An article prompt that formats the context in whether one was given or not.
BuildPromptContextAlways(event_name, context, style, language) ==
    <<"Write a comprehensive ", "Wikipedia-style article", " about '">>
    \o event_name \o <<"' in Oman.\n\nStyle: ">> \o style \o <<"\n">>
    \o <<"\nAdditional context: ">> \o context

\* WikiGenerator._build_prompt
BuildPrompt(event_name, context, style, language) ==
    LET base ==
            IF language = AR
            THEN <<"<ar: Write a comprehensive Wikipedia-style article about '>">>
                 \o event_name
                 \o <<"<ar: ' in Oman.\n\nThe article should include:\n1. ... 7. References section\n\nStyle: >">>
                 \o style \o <<"\n">>
            ELSE <<"Write a comprehensive ", "Wikipedia-style article", " about '">>
                 \o event_name
                 \o <<"' in Oman.\n\nThe article should include:\n1. An introductory paragraph with a clear definition\n2. Historical background and significance\n3. Key details and information\n4. Cultural or economic impact\n5. Notable participants or figures (if applicable)\n6. Related events or traditions\n7. References section\n\nStyle: ">>
                 \o style \o <<"\n">>
        ctx ==
            IF Truthy(context)
            THEN IF language = AR
                 THEN <<"\n<ar: Additional context: >">> \o context
                 ELSE <<"\nAdditional context: ">> \o context
            ELSE <<>>
        tail ==
            IF language = AR
            THEN <<"\n\n<ar: Write the article in proper Wikipedia format with appropriate sections and subsections.>">>
            ELSE <<"\n\nWrite the article in proper Wikipedia format with appropriate sections and subsections.">>
    IN  base \o ctx \o tail

\* A positional argument the caller left out.
Omitted == <<"<omitted>">>

\* The call generator._build_prompt(event_name, context, style[, language]):
\* Python binds the arguments to the parameters, none of which has a default,
\* before the body runs.
BindBuildPrompt(event_name, context, style, language) ==
    IF language = Omitted
    THEN Raise("TypeError",
               <<"WikiGenerator._build_prompt() missing 1 required positional argument: 'language'">>)
    ELSE Return(BuildPrompt(event_name, context, style, language))

\* A summary prompt that does not mention the length asked for.
SummaryPromptNoLength(event_name, max_length, language) ==
    <<"Write a concise summary about '">> \o event_name
    \o <<"' in Oman. \nFocus on the most important facts and significance.">>

\* The summary prompt of generate_summary.
SummaryPrompt(event_name, max_length, language) ==
    IF language = AR
    THEN <<"<ar: Write a concise summary (max >">> \o IntStr(max_length)
         \o <<"<ar:  words) about '>">> \o event_name
         \o <<"<ar: ' in Oman. \nFocus on the most important facts and significance.>">>
    ELSE <<"Write a concise summary (max ">> \o IntStr(max_length)
         \o <<" words) about '">> \o event_name
         \o <<"' in Oman. \nFocus on the most important facts and significance.">>

\* The infobox prompt of generate_infobox.
InfoboxPrompt(event_name, language) ==
    IF language = AR
    THEN <<"<ar: Create a Wikipedia-style infobox for '>">> \o event_name
         \o <<"<ar: ' in Oman.\nInclude relevant fields such as:\n- Date/Time period\n- Location\n- Type of event\n- Significance\n- Participants\n- Other relevant details\n\nFormat it as a text-based infobox.>">>
    ELSE <<"Create a Wikipedia-style infobox for '">> \o event_name
         \o <<"' in Oman.\nInclude relevant fields such as:\n- Date/Time period\n- Location\n- Type of event\n- Significance\n- Participants\n- Other relevant details\n\nFormat it as a text-based infobox.">>

\* The image-description prompt of generate_with_image.
ImagePrompt(event_name, language) ==
    IF language = AR
    THEN <<"<ar: Create a detailed description of an image representing '>">> \o event_name
         \o <<"<ar: ' in Oman. The description must be suitable for image generation with DALL-E.>">>
    ELSE <<"Create a detailed image prompt for '">> \o event_name
         \o <<"' in Oman that would be suitable for DALL-E image generation. Focus on visual elements, setting, atmosphere, and cultural details.">>

ImageSystemPrompt ==
    <<"You are an expert at creating detailed image prompts for AI image generation.">>

-----------------------------------------------------------------------------
(* The completion client: client.chat.completions.create and its response. *)

\* The request create() is called with; resp is filled in when it returns.
Call(kind, g, system, user, temperature, max_tokens) ==
    [kind |-> kind, api_key |-> g.client.api_key, model |-> g.model,
     system |-> system, user |-> user,
     temperature |-> temperature, max_tokens |-> max_tokens, resp |-> NoResp]

\* What the try block does with the response of create():
\* response.choices[0].message.content.strip().  [exc, text]: the message of
\* the exception raised inside the try block (NoneS if none) and the text.
ReadResponse(resp) ==
    CASE resp.kind = "ok"        -> [exc |-> NoneS, text |-> Strip(resp.content)]
      [] resp.kind = "error"     -> [exc |-> resp.msg, text |-> <<>>]
      [] resp.kind = "nochoices" -> [exc |-> <<"list index out of range">>, text |-> <<>>]
      [] resp.kind = "nocontent" -> [exc |-> <<"'NoneType' object has no attribute 'strip'">>,
                                     text |-> <<>>]

\* The prefix of the exception each operation raises from its except clause.
ErrorPrefix(kind) ==
    CASE kind = "article" -> <<"Error generating content: ">>
      [] kind = "summary" -> <<"Error generating summary: ">>
      [] kind = "infobox" -> <<"Error generating infobox: ">>
      [] kind = "image"   -> <<"Error generating image prompt: ">>

\* An except clause that swallows the failure and returns an empty text.
FinishSwallows(kind, resp) ==
    IF resp.kind = "ok" THEN Return(Strip(resp.content)) ELSE Return(<<>>)

\* try: return ....strip()  except Exception as e: raise Exception(prefix + str(e))
Finish(kind, resp) ==
    LET r == ReadResponse(resp)
    IN  IF r.exc = NoneS
        THEN Return(r.text)
        ELSE Raise("Exception", ErrorPrefix(kind) \o r.exc)

-----------------------------------------------------------------------------
(* The single-item operations up to their completion call.  Each gives      *)
(* [exc, call]: the exception raised before any call, or the call issued.   *)

NoCall == [kind |-> "none"]

\* generate_wiki_article without its language check.
ArticleStartNoCheck(g, event_name, context, style, language) ==
    [exc |-> NoRet,
     call |-> Call("article", g, GetSystemPrompt(language),
                   BuildPrompt(event_name, context, style, language), "0.7", 2000)]

\* generate_wiki_article, lines 57-76
ArticleStart(g, event_name, context, style, language) ==
    IF language \notin SUPPORTED_LANGUAGES
    THEN [exc |-> Raise("ValueError",
                    <<"Unsupported language: ">> \o language \o <<". Supported: ['en', 'ar']">>),
          call |-> NoCall]
    ELSE [exc |-> NoRet,
          call |-> Call("article", g, GetSystemPrompt(language),
                        BuildPrompt(event_name, context, style, language), "0.7", 2000)]

\* generate_summary taking max_tokens from its max_length argument.
SummaryStartTokensFromLength(g, event_name, max_length, language) ==
    IF language \notin SUPPORTED_LANGUAGES
    THEN [exc |-> Raise("ValueError", <<"Unsupported language: ">> \o language),
          call |-> NoCall]
    ELSE [exc |-> NoRet,
          call |-> Call("summary", g, GetSystemPrompt(language),
                        SummaryPrompt(event_name, max_length, language), "0.5", max_length)]

\* generate_summary, lines 149-171
SummaryStart(g, event_name, max_length, language) ==
    IF language \notin SUPPORTED_LANGUAGES
    THEN [exc |-> Raise("ValueError", <<"Unsupported language: ">> \o language),
          call |-> NoCall]
    ELSE [exc |-> NoRet,
          call |-> Call("summary", g, GetSystemPrompt(language),
                        SummaryPrompt(event_name, max_length, language), "0.5", 300)]

\* generate_infobox, lines 189-227
InfoboxStart(g, event_name, language) ==
    IF language \notin SUPPORTED_LANGUAGES
    THEN [exc |-> Raise("ValueError", <<"Unsupported language: ">> \o language),
          call |-> NoCall]
    ELSE [exc |-> NoRet,
          call |-> Call("infobox", g, GetSystemPrompt(language),
                        InfoboxPrompt(event_name, language), "0.6", 500)]

\* generate_with_image, lines 341-358: the image-description call
ImageCall(g, event_name, language) ==
    Call("image", g, ImageSystemPrompt, ImagePrompt(event_name, language), "0.7", 200)

-----------------------------------------------------------------------------
(* Python dict, insertion ordered: a sequence of <<key, value>> pairs. *)

DictKeys(d) == [i \in 1..Len(d) |-> d[i][1]]

DictHas(d, k) == \E i \in 1..Len(d) : d[i][1] = k

DictGet(d, k) == d[CHOOSE i \in 1..Len(d) : d[i][1] = k][2]

\* A mapping that keeps every write as an entry of its own.
DictSetAppend(d, k, v) == Append(d, <<k, v>>)

\* d[k] = v: an existing key keeps its place, a new key goes last.
DictSet(d, k, v) ==
    IF DictHas(d, k)
    THEN [i \in 1..Len(d) |-> IF d[i][1] = k THEN <<k, v>> ELSE d[i]]
    ELSE Append(d, <<k, v>>)

-----------------------------------------------------------------------------
(* extract_citations: the two regular expressions, matched as re matches    *)
(* them (leftmost match, greedy \s* and \d+, lazy groups).                   *)

Letters ==
    {"a", "b", "c", "d", "e", "f", "g", "h", "i", "j", "k", "l", "m", "n", "o", "p",
     "q", "r", "s", "t", "u", "v", "w", "x", "y", "z", "A", "B", "C", "D", "E", "F",
     "G", "H", "I", "J", "K", "L", "M", "N", "O", "P", "Q", "R", "S", "T", "U", "V",
     "W", "X", "Y", "Z"}

\* \d
IsDigit(c) == c \in {"0", "1", "2", "3", "4", "5", "6", "7", "8", "9"}

\* \w
IsWordChar(c) == IsDigit(c) \/ c \in Letters \/ c = "_"

\* (?:References|<the Arabic word>) under re.IGNORECASE; the word is one token.
IsRefsHeader(c) == c \in {"References", "references", "REFERENCES", "<ar: References>"}

\* The last position of the run of whitespace that starts at p (p - 1 if none).
RECURSIVE WsRunEnd(_, _)
WsRunEnd(t, p) ==
    IF p <= Len(t) /\ IsSpace(t[p]) THEN WsRunEnd(t, p + 1) ELSE p - 1

\* The last position of the run of digits that starts at p (p - 1 if none).
RECURSIVE DigitRunEnd(_, _)
DigitRunEnd(t, p) ==
    IF p <= Len(t) /\ IsDigit(t[p]) THEN DigitRunEnd(t, p + 1) ELSE p - 1

\* (?:\d+\.|\-|\*) matched at x: the position of its last character, 0 if it
\* does not match.
MarkerEnd(t, x) ==
    IF x > Len(t) THEN 0
    ELSE IF t[x] \in {"-", "*"} THEN x
    ELSE LET y == DigitRunEnd(t, x)
         IN  IF y >= x /\ y + 1 <= Len(t) /\ t[y + 1] = "." THEN y + 1 ELSE 0

\* (?=\n\s*(?:\d+\.|\-|\*)|$) at p; $ is the end, or before a final newline.
Lookahead(t, p) ==
    \/ p = Len(t) + 1
    \/ p = Len(t) /\ t[p] = "\n"
    \/ p <= Len(t) /\ t[p] = "\n" /\ MarkerEnd(t, WsRunEnd(t, p + 1) + 1) # 0

\* (.+?): the least end, from e on, after which the lookahead holds.
RECURSIVE GroupEnd(_, _)
GroupEnd(t, e) == IF Lookahead(t, e + 1) THEN e ELSE GroupEnd(t, e + 1)

\* The citation pattern matched at m: <<first, last>> of group 1, <<0, 0>> if
\* there is no match at m.
MatchAt(t, m) ==
    LET ok == m = 1 \/ (m <= Len(t) /\ t[m] = "\n")
        p0 == IF m = 1 THEN 1 ELSE m + 1
        me == MarkerEnd(t, WsRunEnd(t, p0) + 1)
        e2 == WsRunEnd(t, me + 1)
        gs == IF e2 + 1 <= Len(t) THEN e2 + 1 ELSE Len(t)
    IN  IF ~ok \/ me = 0 \/ gs < me + 1 THEN <<0, 0>>
        ELSE <<gs, GroupEnd(t, gs)>>

\* The least m' >= m at which the citation pattern matches, 0 if none.
RECURSIVE FirstMatchFrom(_, _)
FirstMatchFrom(t, m) ==
    IF m > Len(t) THEN 0
    ELSE IF MatchAt(t, m) # <<0, 0>> THEN m
    ELSE FirstMatchFrom(t, m + 1)

\* re.findall(citation pattern, t, re.DOTALL), scanning from pos.
RECURSIVE FindAll(_, _)
FindAll(t, pos) ==
    LET m == FirstMatchFrom(t, pos)
    IN  IF m = 0 THEN <<>>
        ELSE LET g == MatchAt(t, m)
             IN  <<SubSeq(t, g[1], g[2])>> \o FindAll(t, g[2] + 1)

\* A header pattern whose \s* stops at the first newline after the header, so
\* that group 1 starts on the line after the header line.
RefsGroupStartNextLine(t, i) ==
    IF ~IsRefsHeader(t[i]) THEN 0
    ELSE LET nl == {j \in (i + 1)..WsRunEnd(t, i + 1) : t[j] = "\n"}
         IN  IF nl = {} THEN 0
             ELSE (CHOOSE j \in nl : \A k \in nl : j <= k) + 1

\* The header pattern matched at i: the first position of group 1, 0 if there
\* is no match at i.  \s*\n takes the whitespace after the header up to its
\* last newline.
RefsGroupStart(t, i) ==
    IF ~IsRefsHeader(t[i]) THEN 0
    ELSE LET nl == {j \in (i + 1)..WsRunEnd(t, i + 1) : t[j] = "\n"}
         IN  IF nl = {} THEN 0
             ELSE (CHOOSE j \in nl : \A k \in nl : k <= j) + 1

\* (.*?)(?:\n\n|\Z): the first position, from q on, of a blank line or the end.
RECURSIVE RefsGroupStop(_, _)
RefsGroupStop(t, q) ==
    IF q = Len(t) + 1 \/ (q + 1 <= Len(t) /\ t[q] = "\n" /\ t[q + 1] = "\n")
    THEN q
    ELSE RefsGroupStop(t, q + 1)

\* re.search(refs_pattern, article, re.DOTALL | re.IGNORECASE):
\* [found, text], text being match.group(1).
RefsSearch(article) ==
    LET starts == {i \in 1..Len(article) : RefsGroupStart(article, i) # 0}
    IN  IF starts = {} THEN [found |-> FALSE, text |-> <<>>]
        ELSE LET i == CHOOSE j \in starts : \A k \in starts : j <= k
                 g == RefsGroupStart(article, i)
             IN  [found |-> TRUE,
                  text |-> SubSeq(article, g, RefsGroupStop(article, g) - 1)]

\* [c.strip() for c in citations if c.strip()]
StripAll(cs) == SelectSeq([i \in 1..Len(cs) |-> Strip(cs[i])], LAMBDA c : c # <<>>)

\* A list comprehension that keeps the segments as matched.
ExtractCitationsUnstripped(article) ==
    LET m == RefsSearch(article)
    IN  IF ~m.found THEN <<>>
        ELSE SelectSeq(FindAll(m.text, 1), LAMBDA c : Strip(c) # <<>>)

\* WikiGenerator.extract_citations
ExtractCitations(article) ==
    LET m == RefsSearch(article)
    IN  IF ~m.found THEN <<>> ELSE StripAll(FindAll(m.text, 1))

-----------------------------------------------------------------------------
(* validate_citations *)

CitationMinLength == 20

\* bool(re.search(r'\b\d{4}\b', citation))
HasYear(c) ==
    \E i \in 1..(Len(c) - 3) :
        /\ \A k \in i..(i + 3) : IsDigit(c[k])
        /\ i = 1 \/ ~IsWordChar(c[i - 1])
        /\ i + 3 = Len(c) \/ ~IsWordChar(c[i + 4])

HasQuotes(c) == \E i \in 1..Len(c) : c[i] \in {"\"", "'"}

\* citation.endswith('.')
EndsWithPeriod(c) == c # <<>> /\ c[Len(c)] = "."

\* A validity that also asks for a quotation mark.
IsValidCitationQuoted(c) ==
    HasQuotes(c) /\ HasYear(c) /\ Len(c) > CitationMinLength /\ EndsWithPeriod(c)

\* is_valid, lines 310-315
IsValidCitation(c) ==
    LET has_quotes == HasQuotes(c)
        has_year == HasYear(c)
        has_punctuation == EndsWithPeriod(c) \/ EndsWithPeriod(c)
        is_substantial == Len(c) > CitationMinLength
    IN  has_year /\ is_substantial /\ has_punctuation

\* WikiGenerator.validate_citations: the dict filled by the loop.
RECURSIVE ValidateCitations(_)
ValidateCitations(citations) ==
    IF citations = <<>> THEN <<>>
    ELSE LET front == SubSeq(citations, 1, Len(citations) - 1)
             c == citations[Len(citations)]
         IN  DictSet(ValidateCitations(front), c, IsValidCitation(c))

-----------------------------------------------------------------------------
(* Inputs of the model. *)

FR == <<"f", "r">>

Subjects == {<<>>, <<"a">>, <<"b", " ", "c">>}
Contexts == {NoneS, <<>>, <<"x", "y">>}
Styles == {<<"formal">>, <<"detailed">>}
Languages == {EN, AR, FR}
MaxLengths == {0, 100, 200}
OutputTypes == {"article", "summary", "infobox", "other"}

\* **kwargs of batch_generate: a function from parameter names to values.
NoKwargs == <<>>
KwargsSet == {NoKwargs, [max_length |-> 50], [temperature |-> "1.0"]}

ApiKeyArgs == {NoneS, <<>>, <<"sk-arg">>}
EnvKeys == {NoneS, <<>>, <<"sk-env">>}
ModelArgs == {<<"gpt-4">>, <<>>}
EnvModels == {NoneS, <<"gpt-3.5-turbo">>}

\* What the completion service may answer.
Responses ==
    {[kind |-> "ok", content |-> <<" ", "T", " ", "x", "\n">>],
     [kind |-> "ok", content |-> <<"U">>],
     [kind |-> "error", msg |-> <<"API Error">>],
     [kind |-> "nocontent"]}

\* What it may answer to the call of a batch item.
BatchResponses == {r \in Responses : r.kind \in {"ok", "error"}}

RECURSIVE SeqsUpTo(_, _)
SeqsUpTo(S, n) ==
    IF n = 0 THEN {<<>>}
    ELSE LET shorter == SeqsUpTo(S, n - 1)
         IN  shorter \cup {Append(q, x) : q \in shorter, x \in S}

NoLocals == [i |-> 0, results |-> <<>>, article |-> <<>>]

\* No file, and nothing counted.
NoFiles == {}
NoHist == [invocations |-> 0, completions |-> 0, constructed |-> 0]

\* A step of the library alone writes no file and serves no request; only a
\* session counts.
Outside == UNCHANGED <<files, hist, reqs>>

-----------------------------------------------------------------------------
(* The state machine. *)

Init ==
    /\ gen = NoGen
    /\ op = [name |-> "none"]
    /\ pc = "idle"
    /\ calls = <<>>
    /\ locals = NoLocals
    /\ ret = NoRet
    /\ files = NoFiles
    /\ hist = NoHist
    /\ reqs = <<>>

\* WikiGenerator(api_key, model)
Construct(api_key, model, env_key, env_model) ==
    /\ gen = NoGen
    /\ pc = "idle"
    /\ LET r == InitGenerator(api_key, model, env_key, env_model)
       IN  /\ gen' = r.obj
           /\ ret' = IF r.exc = NoRet THEN Return(<<>>) ELSE r.exc
    /\ op' = [name |-> "init", api_key |-> api_key, model |-> model,
              env_key |-> env_key, env_model |-> env_model]
    /\ pc' = "done"
    /\ calls' = <<>>
    /\ locals' = NoLocals

Ready == gen # NoGen /\ pc = "idle"

\* A single-item operation that switches the generator to another model.
StartSingleSetsModel(o, r) ==
    /\ op' = o
    /\ locals' = NoLocals
    /\ gen' = [gen EXCEPT !.model = <<"gpt-3.5-turbo">>]
    /\ IF r.exc # NoRet
       THEN /\ ret' = r.exc
            /\ calls' = <<>>
            /\ pc' = "done"
       ELSE /\ ret' = NoRet
            /\ calls' = <<r.call>>
            /\ pc' = "await"

\* A single-item operation runs up to its completion call, or raises.
StartSingle(o, r) ==
    /\ op' = o
    /\ locals' = NoLocals
    /\ UNCHANGED gen
    /\ IF r.exc # NoRet
       THEN /\ ret' = r.exc
            /\ calls' = <<>>
            /\ pc' = "done"
       ELSE /\ ret' = NoRet
            /\ calls' = <<r.call>>
            /\ pc' = "await"

GenerateWikiArticle(event_name, context, style, language) ==
    /\ Ready
    /\ StartSingle([name |-> "article", event_name |-> event_name, context |-> context,
                    style |-> style, language |-> language],
                   ArticleStart(gen, event_name, context, style, language))

GenerateSummary(event_name, max_length, language) ==
    /\ Ready
    /\ StartSingle([name |-> "summary", event_name |-> event_name,
                    max_length |-> max_length, language |-> language],
                   SummaryStart(gen, event_name, max_length, language))

GenerateInfobox(event_name, language) ==
    /\ Ready
    /\ StartSingle([name |-> "infobox", event_name |-> event_name, language |-> language],
                   InfoboxStart(gen, event_name, language))

\* generator._build_prompt(...) called directly, as the unit tests do.
CallBuildPrompt(event_name, context, style, language) ==
    /\ Ready
    /\ op' = [name |-> "_build_prompt", event_name |-> event_name, context |-> context,
              style |-> style, language |-> language]
    /\ ret' = BindBuildPrompt(event_name, context, style, language)
    /\ pc' = "done"
    /\ calls' = <<>>
    /\ locals' = NoLocals
    /\ UNCHANGED gen

\* The last call issued, answered by resp.
Answered(resp) == [calls EXCEPT ![Len(calls)].resp = resp]

\* A single-item operation that calls create() once more after a failure.
RespondRetries(resp) ==
    /\ pc = "await"
    /\ IF resp.kind = "error" /\ Len(calls) = 1
       THEN /\ calls' = Append(Answered(resp), calls[1])
            /\ UNCHANGED <<ret, pc>>
       ELSE /\ calls' = Answered(resp)
            /\ ret' = Finish(op.name, resp)
            /\ pc' = "done"
    /\ UNCHANGED <<gen, op, locals>>

\* create() returns or raises inside a single-item operation.
Respond(resp) ==
    /\ pc = "await"
    /\ calls' = Answered(resp)
    /\ ret' = Finish(op.name, resp)
    /\ pc' = "done"
    /\ UNCHANGED <<gen, op, locals>>

-----------------------------------------------------------------------------
(* batch_generate *)

UnexpectedKeyword(fn, kw, accepted) ==
    Raise("TypeError",
          <<fn, "() got an unexpected keyword argument '",
            CHOOSE k \in DOMAIN kw : k \notin accepted, "'">>)

KwOr(kw, k, default) == IF k \in DOMAIN kw THEN kw[k] ELSE default

\* A dispatch that treats an output type it does not know as "article".
BatchDispatchDefaultsToArticle(g, event_name, output_type, language, kw) ==
    IF output_type = "summary"
    THEN SummaryStart(g, event_name, KwOr(kw, "max_length", 200), language)
    ELSE IF output_type = "infobox"
    THEN InfoboxStart(g, event_name, language)
    ELSE ArticleStart(g, event_name, KwOr(kw, "context", NoneS),
                      KwOr(kw, "style", <<"formal">>), language)

\* The body of the try block for one event name, up to the completion call:
\* the call of the operation output_type selects, with **kwargs.
BatchDispatch(g, event_name, output_type, language, kw) ==
    CASE output_type = "article" ->
            IF DOMAIN kw \subseteq {"context", "style"}
            THEN ArticleStart(g, event_name, KwOr(kw, "context", NoneS),
                              KwOr(kw, "style", <<"formal">>), language)
            ELSE [exc |-> UnexpectedKeyword("generate_wiki_article", kw, {"context", "style"}),
                  call |-> NoCall]
      [] output_type = "summary" ->
            IF DOMAIN kw \subseteq {"max_length"}
            THEN SummaryStart(g, event_name, KwOr(kw, "max_length", 200), language)
            ELSE [exc |-> UnexpectedKeyword("generate_summary", kw, {"max_length"}),
                  call |-> NoCall]
      [] output_type = "infobox" -> InfoboxStart(g, event_name, language)
      [] OTHER ->
            [exc |-> Raise("ValueError", <<"Unknown output type: ", output_type>>),
             call |-> NoCall]

\* except Exception as e: results[event_name] = f"Error: {str(e)}"
BatchError(e) == <<"Error: ">> \o e.msg

\* A loop body that stores nothing for an item that failed.
BatchStoreDropsError(results, event_name, r) ==
    IF r.kind = "return" THEN DictSet(results, event_name, r.value) ELSE results

\* What the loop body stores for an item whose operation ended with outcome r.
BatchStore(results, event_name, r) ==
    DictSet(results, event_name,
            IF r.kind = "return" THEN r.value ELSE BatchError(r))

\* results = {} and the for loop is entered.
BatchGenerate(event_names, output_type, language, kw) ==
    /\ Ready
    /\ op' = [name |-> "batch", event_names |-> event_names, output_type |-> output_type,
              language |-> language, kwargs |-> kw]
    /\ locals' = [NoLocals EXCEPT !.i = 1]
    /\ calls' = <<>>
    /\ ret' = NoRet
    /\ pc' = "loop"
    /\ UNCHANGED gen

\* An iteration that issues its call and moves on without waiting for it.
BatchIterNoWait ==
    /\ pc = "loop"
    /\ locals.i <= Len(op.event_names)
    /\ LET name == op.event_names[locals.i]
           r == BatchDispatch(gen, name, op.output_type, op.language, op.kwargs)
       IN  /\ locals' = [locals EXCEPT !.i = @ + 1]
           /\ calls' = IF r.exc # NoRet THEN calls ELSE Append(calls, r.call)
    /\ UNCHANGED <<gen, op, ret, pc>>

\* One iteration of the loop, up to its completion call; an item that raises
\* before any call is stored as an error and the loop goes on.
BatchIter ==
    /\ pc = "loop"
    /\ locals.i <= Len(op.event_names)
    /\ LET name == op.event_names[locals.i]
           r == BatchDispatch(gen, name, op.output_type, op.language, op.kwargs)
       IN  IF r.exc # NoRet
           THEN /\ locals' = [locals EXCEPT !.i = @ + 1,
                                            !.results = BatchStore(@, name, r.exc)]
                /\ UNCHANGED <<calls, pc>>
           ELSE /\ calls' = Append(calls, r.call)
                /\ pc' = "batch_await"
                /\ UNCHANGED locals
    /\ UNCHANGED <<gen, op, ret>>

\* create() returns or raises for the current item; its outcome is stored.
BatchRespond(resp) ==
    /\ pc = "batch_await"
    /\ calls' = Answered(resp)
    /\ LET name == op.event_names[locals.i]
           r == Finish(calls[Len(calls)].kind, resp)
       IN  locals' = [locals EXCEPT !.i = @ + 1, !.results = BatchStore(@, name, r)]
    /\ pc' = "loop"
    /\ UNCHANGED <<gen, op, ret>>

\* return results
BatchReturn ==
    /\ pc = "loop"
    /\ locals.i > Len(op.event_names)
    /\ ret' = Return(locals.results)
    /\ pc' = "done"
    /\ UNCHANGED <<gen, op, calls, locals>>

-----------------------------------------------------------------------------
(* generate_with_image *)

\* The article is generated first (line 338); its exception propagates.
GenerateWithImage(event_name, context, language) ==
    /\ Ready
    /\ LET r == ArticleStart(gen, event_name, context, <<"formal">>, language)
       IN  IF r.exc # NoRet
           THEN /\ ret' = r.exc
                /\ calls' = <<>>
                /\ pc' = "done"
           ELSE /\ ret' = NoRet
                /\ calls' = <<r.call>>
                /\ pc' = "image_article_await"
    /\ op' = [name |-> "with_image", event_name |-> event_name, context |-> context,
              language |-> language]
    /\ locals' = NoLocals
    /\ UNCHANGED gen

\* An article step whose failure does not stop the operation: the image call
\* is issued whatever the article call gave.
ImageArticleRespondGoesOn(resp) ==
    /\ pc = "image_article_await"
    /\ LET r == Finish("article", resp)
       IN  locals' = [locals EXCEPT !.article = IF r.kind = "raise" THEN r.msg ELSE r.value]
    /\ calls' = Append(Answered(resp), ImageCall(gen, op.event_name, op.language))
    /\ pc' = "await_image"
    /\ UNCHANGED <<gen, op, ret>>

\* The article call returns or raises; on success the image call is issued.
ImageArticleRespond(resp) ==
    /\ pc = "image_article_await"
    /\ LET r == Finish("article", resp)
       IN  IF r.kind = "raise"
           THEN /\ ret' = r
                /\ calls' = Answered(resp)
                /\ pc' = "done"
                /\ UNCHANGED locals
           ELSE /\ locals' = [locals EXCEPT !.article = r.value]
                /\ calls' = Append(Answered(resp), ImageCall(gen, op.event_name, op.language))
                /\ pc' = "await_image"
                /\ UNCHANGED ret
    /\ UNCHANGED <<gen, op>>

\* An except branch that gives the article up with the image prompt.
ImageResultDropsArticle(article, resp) ==
    LET r == ReadResponse(resp)
    IN  IF r.exc = NoneS
        THEN [article |-> article, image_prompt |-> r.text]
        ELSE [article |-> <<>>, image_prompt |-> ErrorPrefix("image") \o r.exc]

\* The outcome of the image call: both branches of lines 346-371 return a dict.
ImageResult(article, resp) ==
    LET r == ReadResponse(resp)
    IN  [article |-> article,
         image_prompt |-> IF r.exc = NoneS THEN r.text ELSE ErrorPrefix("image") \o r.exc]

ImageRespond(resp) ==
    /\ pc = "await_image"
    /\ calls' = Answered(resp)
    /\ ret' = Return(ImageResult(locals.article, resp))
    /\ pc' = "done"
    /\ UNCHANGED <<gen, op, locals>>

-----------------------------------------------------------------------------

\* The caller takes the outcome of the operation; the generator keeps only
\* its configuration.
ReturnToCaller ==
    /\ pc = "done"
    /\ pc' = "idle"
    /\ op' = [name |-> "none"]
    /\ calls' = <<>>
    /\ locals' = NoLocals
    /\ ret' = NoRet
    /\ UNCHANGED gen

-----------------------------------------------------------------------------
(* The citation functions, applied to article texts and citation lists.     *)

MaxEntries == 3
MaxPad == 18

\* The text of a list entry, after its marker.
EntryTexts == {<<"a">>, <<"b", "-", "c", " ">>, <<"2", "0", "1", "9", ".">>}

\* What stands before the header, the header, what ends its line, the markers
\* of the list, and what follows the list.
Prefixes ==
    {<<>>, <<"#", " ">>, <<"a", ".", "\n", "\n">>, <<"references", "\n", "x", "\n", "\n">>}
Headers == {<<"References">>, <<"references">>, <<"<ar: References>">>}
HeaderEnds == {<<"\n">>, <<" ", "\n">>, <<"\n", "\n">>, <<":", "\n">>}
ListStyles == {"num", "-", "*"}
Suffixes == {<<>>, <<"\n">>, <<"\n", "\n", "-", " ", "z">>, <<"\n", "z">>}

ListLine(style, i, e) ==
    (IF style = "num" THEN <<Digit(i), ".">> ELSE <<style>>) \o <<" ">> \o e

\* The entries es as a list, one per line.
RECURSIVE ListText(_, _)
ListText(style, es) ==
    IF es = <<>> THEN <<>>
    ELSE IF Len(es) = 1 THEN ListLine(style, 1, es[1])
    ELSE ListText(style, SubSeq(es, 1, Len(es) - 1))
         \o <<"\n">> \o ListLine(style, Len(es), es[Len(es)])

\* An article of the given shape; a shape without header has header = <<>>.
ArticleText(sh) ==
    sh.prefix \o sh.header \o sh.header_end \o ListText(sh.style, sh.entries) \o sh.suffix

\* The shape of an article text.
Shape(p, h, he, st, es, su) ==
    [prefix |-> p, header |-> h, header_end |-> he, style |-> st, entries |-> es,
     suffix |-> su]

EntryLists == SeqsUpTo(EntryTexts, MaxEntries)

Pad(n) == [i \in 1..n |-> "x"]

SpecExampleValid ==
    <<"O", "m", "a", "n", "i", " ", "M", "i", "n", "i", "s", "t", "r", "y", " ", "o",
      "f", " ", "H", "e", "r", "i", "t", "a", "g", "e", ",", " ", "2", "0", "1", "9",
      " ", "r", "e", "p", "o", "r", "t", ".">>

SpecExampleShort == <<"t", "o", "o", " ", "s", "h", "o", "r", "t">>

CitationMiddles ==
    {<<>>, <<"2", "0", "1", "9">>, <<"2", "0", "1", "9", "1">>, <<"2", "0", "1">>,
     <<"x", "2", "0", "1", "9">>, <<"2", "0", "1", "9", "_">>,
     <<"\"", "2", "0", "1", "9", "\"">>, <<"'", "t", "'", ",", "1", "9", "9", "9", ",">>}
CitationEnds == {<<".">>, <<>>, <<".", " ">>, <<"!">>, <<".", "\"">>}

Citations ==
    {Pad(n) \o <<" ">> \o m \o e : n \in 0..MaxPad, m \in CitationMiddles, e \in CitationEnds}
    \cup {SpecExampleValid, SpecExampleShort}

CitationLists ==
    {<<c>> : c \in Citations}
    \cup {<<c, d>> : c \in {SpecExampleValid, SpecExampleShort}, d \in Citations}

\* A generator as the constructor leaves it.
SomeGenerator == InitGenerator(<<"sk-arg">>, <<"gpt-4">>, NoneS, NoneS).obj

InitCite ==
    /\ gen = SomeGenerator
    /\ op = [name |-> "none"]
    /\ pc = "idle"
    /\ calls = <<>>
    /\ locals = NoLocals
    /\ ret = NoRet
    /\ files = NoFiles
    /\ hist = NoHist
    /\ reqs = <<>>

\* generator.extract_citations(article); shape tells how the text was drawn.
ExtractCitationsCall(sh) ==
    /\ Ready
    /\ op' = [name |-> "extract_citations", article |-> ArticleText(sh), shape |-> sh]
    /\ ret' = Return(ExtractCitations(ArticleText(sh)))
    /\ pc' = "done"
    /\ calls' = <<>>
    /\ locals' = NoLocals
    /\ UNCHANGED gen

\* generator.validate_citations(citations)
ValidateCitationsCall(citations) ==
    /\ Ready
    /\ op' = [name |-> "validate_citations", citations |-> citations]
    /\ ret' = Return(ValidateCitations(citations))
    /\ pc' = "done"
    /\ calls' = <<>>
    /\ locals' = NoLocals
    /\ UNCHANGED gen

NextCite ==
    \/ /\ Ready
       /\ \E p \in Prefixes, h \in Headers, he \in HeaderEnds, st \in ListStyles,
             es \in EntryLists, su \in Suffixes :
            ExtractCitationsCall(Shape(p, h, he, st, es, su))
       /\ Outside
    \/ /\ Ready
       /\ \E p \in Prefixes \ {<<"references", "\n", "x", "\n", "\n">>}, st \in ListStyles, es \in EntryLists, su \in Suffixes :
            ExtractCitationsCall(Shape(p, <<>>, <<"\n">>, st, es, su))
       /\ Outside
    \/ /\ Ready
       /\ \E cs \in CitationLists : ValidateCitationsCall(cs)
       /\ Outside
    \/ ReturnToCaller /\ Outside

SpecCite == InitCite /\ [][NextCite]_vars

-----------------------------------------------------------------------------
(* The generator with all its operations. *)

\* The guards stand before the inputs so that the inputs are drawn only where
\* the action can happen.
Next ==
    \/ /\ gen = NoGen /\ pc = "idle"
       /\ \E k \in ApiKeyArgs, m \in ModelArgs, ek \in EnvKeys, em \in EnvModels :
            Construct(k, m, ek, em)
       /\ Outside
    \/ /\ Ready
       /\ \E s \in Subjects, c \in Contexts, st \in Styles, l \in Languages :
            GenerateWikiArticle(s, c, st, l)
       /\ Outside
    \/ /\ Ready
       /\ \E s \in Subjects, c \in Contexts, st \in Styles, l \in Languages \cup {Omitted} :
            CallBuildPrompt(s, c, st, l)
       /\ Outside
    \/ /\ Ready
       /\ \E s \in Subjects, n \in MaxLengths, l \in Languages : GenerateSummary(s, n, l)
       /\ Outside
    \/ /\ Ready
       /\ \E s \in Subjects, l \in Languages : GenerateInfobox(s, l)
       /\ Outside
    \/ /\ pc = "await"
       /\ \E r \in Responses : Respond(r)
       /\ Outside
    \/ /\ Ready
       /\ \E names \in SeqsUpTo(Subjects, MaxBatch), t \in OutputTypes,
             l \in Languages, kw \in KwargsSet : BatchGenerate(names, t, l, kw)
       /\ Outside
    \/ BatchIter /\ Outside
    \/ /\ pc = "batch_await"
       /\ \E r \in BatchResponses : BatchRespond(r)
       /\ Outside
    \/ BatchReturn /\ Outside
    \/ /\ Ready
       /\ \E s \in Subjects, c \in Contexts, l \in Languages : GenerateWithImage(s, c, l)
       /\ Outside
    \/ /\ pc = "image_article_await"
       /\ \E r \in Responses : ImageArticleRespond(r)
       /\ Outside
    \/ /\ pc = "await_image"
       /\ \E r \in Responses : ImageRespond(r)
       /\ Outside
    \/ /\ Ready
       /\ \E es \in EntryLists :
            ExtractCitationsCall(Shape(<<>>, <<"References">>, <<"\n">>, "num", es, <<>>))
       /\ Outside
    \/ /\ Ready
       /\ \E cs \in {<<SpecExampleValid>>, <<SpecExampleValid, SpecExampleShort>>} :
            ValidateCitationsCall(cs)
       /\ Outside
    \/ ReturnToCaller /\ Outside

Spec == Init /\ [][Next]_vars

-----------------------------------------------------------------------------
(* Properties. *)

SingleOps == {"article", "summary", "infobox", "with_image"}

\* The batch is one whose every item reaches its completion call.
BatchDispatches ==
    /\ op.name = "batch"
    /\ op.language \in {<<"e", "n">>, <<"a", "r">>}
    /\ \/ op.output_type = "article" /\ op.kwargs = NoKwargs
       \/ op.output_type = "summary" /\ DOMAIN op.kwargs \subseteq {"max_length"}
       \/ op.output_type = "infobox"

\* The position of the last occurrence of names[i] in names.
LastOccurrence(names, i) ==
    CHOOSE j \in i..Len(names) :
        /\ names[j] = names[i]
        /\ \A k \in (j + 1)..Len(names) : names[k] # names[i]

\* The distinct elements of names in the order of their first occurrence.
RECURSIVE FirstOccurrences(_)
FirstOccurrences(names) ==
    IF names = <<>> THEN <<>>
    ELSE LET front == SubSeq(names, 1, Len(names) - 1)
             last == names[Len(names)]
         IN  IF \E i \in 1..Len(front) : front[i] = last
             THEN FirstOccurrences(front)
             ELSE Append(FirstOccurrences(front), last)

\* C1: with a language code outside {en, ar}, each single-item operation
\* (article, summary, infobox, article with image) has failed with a
\* validation error (ValueError) and has issued no completion call.
C1_UnsupportedLanguageFailsFast ==
    (op.name \in SingleOps /\ op.language \notin {<<"e", "n">>, <<"a", "r">>})
        => /\ pc = "done"
           /\ ret.kind = "raise"
           /\ ret.type = "ValueError"
           /\ calls = <<>>

C1_Witness ==
    /\ op.name = "with_image"
    /\ op.language = FR
    /\ pc = "done"
    /\ ret.kind = "raise"

\* C2: generate_wiki_article with a supported language has issued exactly one
\* completion call by the time it ends (and never more), and the user prompt
\* of that call contains the subject verbatim.
C2_ArticleOneCallWithSubject ==
    (op.name = "article" /\ op.language \in {<<"e", "n">>, <<"a", "r">>})
        => /\ Len(calls) = 1
           /\ calls[1].kind = "article"
           /\ Contains(calls[1].user, op.event_name)

C2_Witness ==
    /\ op.name = "article"
    /\ op.language = AR
    /\ op.event_name = <<"b", " ", "c">>
    /\ pc = "done"
    /\ ret.kind = "return"

\* C3: batch_generate never raises and never stops early: when it ends it
\* returns, every item has had its completion call answered, a subject whose
\* (last) generation succeeded maps to the generated content and a subject
\* whose (last) generation failed maps to an error string.
C3_BatchToleratesFailures ==
    /\ op.name = "batch" => ret.kind # "raise"
    /\ (BatchDispatches /\ pc = "done") =>
          /\ ret.kind = "return"
          /\ Len(calls) = Len(op.event_names)
          /\ \A i \in 1..Len(op.event_names) :
                LET name == op.event_names[i]
                    resp == calls[LastOccurrence(op.event_names, i)].resp
                IN  /\ DictHas(ret.value, name)
                    /\ IF resp.kind = "ok"
                       THEN DictGet(ret.value, name) = Strip(resp.content)
                       ELSE /\ Head(DictGet(ret.value, name)) = "Error: "
                            /\ resp.kind = "error" =>
                                 Contains(DictGet(ret.value, name), resp.msg)

C3_Witness ==
    /\ BatchDispatches
    /\ pc = "done"
    /\ op.event_names = <<<<"a">>, <<>>, <<"b", " ", "c">>>>
    /\ calls[1].resp.kind = "ok"
    /\ calls[2].resp.kind = "error"
    /\ calls[3].resp.kind = "ok"
    /\ DictGet(ret.value, <<"b", " ", "c">>) = <<"U">>

\* C4: the mapping batch_generate returns has one entry per distinct input
\* subject, in the order in which the subjects first occur in the input;
\* every occurrence has its own completion call, in input order, and the
\* entry of a repeated subject holds the outcome of its last occurrence.
C4_BatchResultKeysAndOrder ==
    (op.name = "batch" /\ pc = "done") =>
        /\ DictKeys(ret.value) = FirstOccurrences(op.event_names)
        /\ BatchDispatches =>
              /\ Len(calls) = Len(op.event_names)
              /\ \A i \in 1..Len(op.event_names) :
                    /\ calls[i].kind = op.output_type
                    /\ Contains(calls[i].user, op.event_names[i])
                    /\ LET r == Finish(op.output_type, calls[i].resp)
                       IN  LastOccurrence(op.event_names, i) = i =>
                             ret.value[CHOOSE n \in 1..Len(ret.value) :
                                          ret.value[n][1] = op.event_names[i]][2]
                               = IF r.kind = "return" THEN r.value
                                 ELSE <<"Error: ">> \o r.msg

C4_Witness ==
    /\ BatchDispatches
    /\ pc = "done"
    /\ op.event_names = <<<<"a">>, <<"b", " ", "c">>, <<"a">>>>
    /\ calls[1].resp = [kind |-> "ok", content |-> <<" ", "T", " ", "x", "\n">>]
    /\ calls[3].resp = [kind |-> "ok", content |-> <<"U">>]
    /\ ret.value[1] = <<<<"a">>, <<"U">>>>
    /\ Len(ret.value) = 2

\* C5: in generate_with_image, when the article call succeeded and the
\* image-description call failed, the operation returns (it does not raise)
\* the generated article unchanged with an inline error string as image_prompt.
C5_ImageFailureKeepsArticle ==
    (/\ op.name = "with_image"
     /\ pc = "done"
     /\ Len(calls) = 2
     /\ calls[1].resp.kind = "ok"
     /\ calls[2].resp.kind # "ok")
        => /\ ret.kind = "return"
           /\ ret.value.article = Strip(calls[1].resp.content)
           /\ Head(ret.value.image_prompt) = "Error generating image prompt: "
           /\ calls[2].resp.kind = "error" =>
                 ret.value.image_prompt
                    = <<"Error generating image prompt: ">> \o calls[2].resp.msg

C5_Witness ==
    /\ op.name = "with_image"
    /\ pc = "done"
    /\ Len(calls) = 2
    /\ calls[1].resp.kind = "ok"
    /\ calls[2].resp.kind = "error"
    /\ ret.kind = "return"

\* C6: a single-item operation invoked with an empty subject has failed at
\* once with a validation error and has issued no completion call.
C6_EmptySubjectRejected ==
    (op.name \in SingleOps /\ op.event_name = <<>>)
        => /\ pc = "done"
           /\ ret.kind = "raise"
           /\ ret.type = "ValueError"
           /\ calls = <<>>

\* C7: when the completion call, or reading its response, failed inside
\* generate_wiki_article, generate_summary or generate_infobox, the operation
\* has raised (not returned) an exception whose message is the operation's
\* prefix followed by the message of the underlying failure.
C7_FailureIsWrapped ==
    (/\ op.name \in {"article", "summary", "infobox"}
     /\ pc = "done"
     /\ Len(calls) = 1
     /\ calls[1].resp.kind # "ok")
        => /\ ret.kind = "raise"
           /\ Head(ret.msg) = (CASE op.name = "article" -> "Error generating content: "
                                 [] op.name = "summary" -> "Error generating summary: "
                                 [] op.name = "infobox" -> "Error generating infobox: ")
           /\ Len(ret.msg) > 1
           /\ calls[1].resp.kind = "error" => Tail(ret.msg) = calls[1].resp.msg

C7_Witness ==
    /\ op.name = "summary"
    /\ pc = "done"
    /\ Len(calls) = 1
    /\ calls[1].resp.kind = "nocontent"
    /\ ret.kind = "raise"

\* C8 as claimed: construction raises when no api_key argument is given and
\* OPENAI_API_KEY is not in the environment; otherwise the api_key argument is
\* used when given, else the environment value, and the given model is stored.
C8_AsClaimed ==
    op.name = "init" =>
        IF op.api_key = NoneS /\ op.env_key = NoneS
        THEN ret.kind = "raise" /\ gen = NoGen
        ELSE /\ ret.kind = "return"
             /\ gen # NoGen
             /\ gen.api_key = (IF op.api_key # NoneS THEN op.api_key ELSE op.env_key)
             /\ gen.model = op.model

Given(s) == s # NoneS /\ Len(s) > 0

\* C8 amended: construction raises the configuration error, and builds no
\* generator, when neither the api_key argument nor OPENAI_API_KEY holds a
\* non-empty value; otherwise the api_key argument is used when non-empty,
\* else the environment value, and the model stored is the given model when
\* non-empty, else OPENAI_MODEL when set, else gpt-4.
C8_Construction ==
    op.name = "init" =>
        IF ~Given(op.api_key) /\ ~Given(op.env_key)
        THEN /\ ret.kind = "raise"
             /\ ret.type = "ValueError"
             /\ Contains(ret.msg, <<"OpenAI API key not found. Please set OPENAI_API_KEY in .env file or pass it as an argument.">>)
             /\ gen = NoGen
        ELSE /\ ret.kind = "return"
             /\ gen # NoGen
             /\ gen.api_key = (IF Given(op.api_key) THEN op.api_key ELSE op.env_key)
             /\ gen.client.api_key = gen.api_key
             /\ gen.model = (IF Given(op.model) THEN op.model
                             ELSE IF op.env_model # NoneS THEN op.env_model
                             ELSE <<"gpt-4">>)

C8_Witness ==
    /\ op.name = "init"
    /\ op.api_key = <<>>
    /\ op.env_key = <<"sk-env">>
    /\ op.model = <<>>
    /\ op.env_model = <<"gpt-3.5-turbo">>
    /\ gen # NoGen
    /\ gen.api_key = <<"sk-env">>

\* The article has one References header, alone on its line (whitespace may
\* follow the word, and blank lines the header), then exactly three numbered
\* entries on consecutive lines, then the end of the text or a blank line.
ThreeNumberedEntries(sh) ==
    /\ sh.header # <<>>
    /\ sh.prefix # <<"references", "\n", "x", "\n", "\n">>
    /\ sh.header_end \in {<<"\n">>, <<" ", "\n">>, <<"\n", "\n">>}
    /\ sh.style = "num"
    /\ Len(sh.entries) = 3
    /\ sh.suffix \in {<<>>, <<"\n">>, <<"\n", "\n", "-", " ", "z">>}

\* The text with the blanks at its two ends removed.
Trimmed(e) ==
    LET inner == {i \in 1..Len(e) : e[i] \notin {" ", "\n", "\t"}}
    IN  IF inner = {} THEN <<>>
        ELSE SubSeq(e, CHOOSE i \in inner : \A k \in inner : i <= k,
                       CHOOSE j \in inner : \A k \in inner : k <= j)

WordChars ==
    Letters \cup {"0", "1", "2", "3", "4", "5", "6", "7", "8", "9", "_"}

\* The citation holds a token of exactly four digits: four digits with no
\* word character right before or right after them.
HasYearToken(c) ==
    \E i \in 1..Len(c) :
        /\ i + 3 <= Len(c)
        /\ {c[i], c[i + 1], c[i + 2], c[i + 3]} \subseteq
              {"0", "1", "2", "3", "4", "5", "6", "7", "8", "9"}
        /\ i > 1 => c[i - 1] \notin WordChars
        /\ i + 4 <= Len(c) => c[i + 4] \notin WordChars

\* C10: validate_citations maps each citation to true exactly when it holds
\* a 4-digit year token, is longer than 20 characters and ends with a period,
\* whatever else it holds (quotation marks or not); the spec's long example
\* is valid and "too short" is not.
C10_ValidIffYearLengthPeriod ==
    (op.name = "validate_citations" /\ pc = "done") =>
        /\ ret.kind = "return"
        /\ \A i \in 1..Len(op.citations) :
              LET c == op.citations[i]
              IN  /\ DictHas(ret.value, c)
                  /\ DictGet(ret.value, c)
                        = (HasYearToken(c) /\ Len(c) >= 21 /\ Len(c) > 0 /\ c[Len(c)] = ".")
                  /\ c = SpecExampleValid => DictGet(ret.value, c) = TRUE
                  /\ c = SpecExampleShort => DictGet(ret.value, c) = FALSE

C10_Witness ==
    /\ op.name = "validate_citations"
    /\ pc = "done"
    /\ op.citations = <<SpecExampleValid, SpecExampleShort>>
    /\ ret.value = <<<<SpecExampleValid, TRUE>>, <<SpecExampleShort, FALSE>>>>

-----------------------------------------------------------------------------
(* C12 *)

\* The sampling settings the source fixes for each content type.
SettingsOf(content_type) ==
    CASE content_type = "article" -> [temperature |-> "0.7", max_tokens |-> 2000]
      [] content_type = "summary" -> [temperature |-> "0.5", max_tokens |-> 300]
      [] content_type = "infobox" -> [temperature |-> "0.6", max_tokens |-> 500]
      [] content_type = "image" -> [temperature |-> "0.7", max_tokens |-> 200]

\* The content type the i-th call of the running operation is made for.
ContentTypeOfCall(i) ==
    CASE op.name = "with_image" -> IF i = 1 THEN "article" ELSE "image"
      [] op.name = "batch" -> op.output_type
      [] OTHER -> op.name

\* C12: every completion call of a generation, batch or image operation
\* carries the temperature and the max_tokens fixed for its content type
\* (article 0.7/2000, summary 0.5/300, infobox 0.6/500, image prompt
\* 0.7/200), whatever the arguments of the operation were, the extra keyword
\* arguments of batch_generate included.
C12_FixedSamplingSettings ==
    op.name \in SingleOps \cup {"batch", "with_image"} =>
        \A i \in 1..Len(calls) :
            /\ calls[i].kind = ContentTypeOfCall(i)
            /\ calls[i].temperature = SettingsOf(ContentTypeOfCall(i)).temperature
            /\ calls[i].max_tokens = SettingsOf(ContentTypeOfCall(i)).max_tokens

\* A batch given temperature as an extra keyword argument has issued two
\* infobox calls.
C12_Witness ==
    /\ op.name = "batch"
    /\ "temperature" \in DOMAIN op.kwargs
    /\ op.output_type = "infobox"
    /\ Len(calls) = 2

-----------------------------------------------------------------------------
(* A session: invocations of the three single-item operations, one after   *)
(* the other, on one generator.  hist counts the invocations made with a   *)
(* supported language and the completion calls issued, and remembers the   *)
(* last request and whether a request repeated the one before it.          *)

InitSeq ==
    /\ gen = SomeGenerator
    /\ op = [name |-> "none"]
    /\ pc = "idle"
    /\ calls = <<>>
    /\ locals = NoLocals
    /\ ret = NoRet
    /\ files = NoFiles
    /\ hist = [invocations |-> 0, completions |-> 0, constructed |-> 1,
               last |-> [name |-> "none"], repeated |-> FALSE]
    /\ reqs = <<>>

\* The step invoked an operation: op' is the request, calls' what it issued.
Invoked ==
    /\ hist' = [hist EXCEPT
                  !.invocations = @ + (IF op'.language \in SUPPORTED_LANGUAGES THEN 1 ELSE 0),
                  !.completions = @ + Len(calls'),
                  !.last = op',
                  !.repeated = @ \/ op' = hist.last]
    /\ UNCHANGED <<files, reqs>>

\* The step went on inside the operation: calls' may have grown.
Observed ==
    /\ hist' = [hist EXCEPT !.completions = @ + Len(calls') - Len(calls)]
    /\ UNCHANGED <<files, reqs>>

NextSeq ==
    \/ /\ Ready /\ hist.invocations < MaxInvocations
       /\ \E s \in Subjects, c \in {NoneS, <<"x", "y">>}, l \in Languages :
            GenerateWikiArticle(s, c, <<"formal">>, l)
       /\ Invoked
    \/ /\ Ready /\ hist.invocations < MaxInvocations
       /\ \E s \in Subjects, l \in Languages : GenerateSummary(s, 200, l)
       /\ Invoked
    \/ /\ Ready /\ hist.invocations < MaxInvocations
       /\ \E s \in Subjects, l \in Languages : GenerateInfobox(s, l)
       /\ Invoked
    \/ /\ pc = "await"
       /\ \E r \in Responses : Respond(r)
       /\ Observed
    \/ ReturnToCaller /\ UNCHANGED <<files, hist, reqs>>

SpecSeq == InitSeq /\ [][NextSeq]_vars

-----------------------------------------------------------------------------
(* C13 *)

\* C13: no retry and no caching.  In a session of generate_wiki_article,
\* generate_summary and generate_infobox invocations, the number of
\* completion calls issued so far equals the number of invocations made
\* with a supported language, repeated identical requests included, and an
\* invocation that has ended, with a failure or not, has issued one call.
C13_OneCallPerInvocation ==
    /\ hist.completions = hist.invocations
    /\ (pc = "done" /\ op.language \in SUPPORTED_LANGUAGES) => Len(calls) = 1

\* A request identical to the one before it has been made, its call has
\* failed, and an earlier invocation was counted too.
C13_Witness ==
    /\ hist.repeated
    /\ op = hist.last
    /\ pc = "done"
    /\ ret.kind = "raise"
    /\ Len(calls) = 1
    /\ calls[1].resp.kind = "error"
    /\ hist.invocations = MaxInvocations

-----------------------------------------------------------------------------
(* C14 *)

\* The calls of the running operation that have neither returned nor failed.
Outstanding == {i \in 1..Len(calls) : calls[i].resp = NoResp}

\* C14: batch_generate works through its subjects one at a time, in input
\* order.  At most one completion call is outstanding, and it is the last
\* one issued, so that a call is issued only after every earlier one has
\* returned or failed; a call is outstanding exactly while the loop waits
\* for it; and in a batch whose every item reaches its call, the i-th call
\* is the one for the subject at position i, the subjects before the
\* current position being the ones that have their calls.
C14_BatchIsSequential ==
    op.name = "batch" =>
        /\ Cardinality(Outstanding) <= 1
        /\ Outstanding \subseteq {Len(calls)}
        /\ (Outstanding # {}) <=> (pc = "batch_await")
        /\ BatchDispatches =>
              /\ \A i \in 1..Len(calls) : Contains(calls[i].user, op.event_names[i])
              /\ pc = "loop" => Len(calls) = locals.i - 1
              /\ pc = "batch_await" => Len(calls) = locals.i

\* The third call of a batch of three different-looking subjects is
\* outstanding, after the first has failed and the second has returned.
C14_Witness ==
    /\ op.name = "batch"
    /\ op.event_names = << <<"b", " ", "c">>, <<"a">>, <<"b", " ", "c">> >>
    /\ Len(calls) = 3
    /\ calls[1].resp.kind = "error"
    /\ calls[2].resp.kind = "ok"
    /\ calls[3].resp = NoResp

-----------------------------------------------------------------------------
(* C15, C16 *)

\* The words that open the context paragraph of an article prompt.
ContextLabels == {"\nAdditional context: ", "\n<ar: Additional context: >"}

HasContextParagraph(prompt) == \E i \in 1..Len(prompt) : prompt[i] \in ContextLabels

\* What C15 says of the prompt built for a subject, a context and a style.
PromptAsClaimed(prompt, event_name, context, style) ==
    /\ Contains(prompt, event_name)
    /\ Contains(prompt, style)
    /\ IF context # NoneS /\ context # <<>>
       THEN /\ HasContextParagraph(prompt)
            /\ Contains(prompt, context)
       ELSE ~HasContextParagraph(prompt)

\* C15: the article prompt, the user message of the call generate_wiki_article
\* issues and the value _build_prompt returns when given a language,
\* contains the subject and the style verbatim; with a non-empty context it
\* also contains a context paragraph with that context verbatim, and with
\* the context absent (or empty) it has no context paragraph.
C15_PromptHoldsSubjectStyleContext ==
    /\ (op.name = "article" /\ Len(calls) = 1) =>
          PromptAsClaimed(calls[1].user, op.event_name, op.context, op.style)
    /\ (op.name = "_build_prompt" /\ ret.kind = "return") =>
          PromptAsClaimed(ret.value, op.event_name, op.context, op.style)

\* An article was asked for with subject "b c", context "xy" and style
\* detailed, and its call has been issued.
C15_Witness ==
    /\ op.name = "article"
    /\ op.event_name = <<"b", " ", "c">>
    /\ op.context = <<"x", "y">>
    /\ op.style = <<"detailed">>
    /\ Len(calls) = 1

\* C16 as claimed: _build_prompt called with event name, context and style
\* only, the language left out, has returned the English article prompt,
\* which contains the event name, the style and the phrase
\* "Wikipedia-style article".
C16_AsClaimed ==
    (op.name = "_build_prompt" /\ op.language = Omitted /\ pc = "done") =>
        /\ ret.kind = "return"
        /\ ret.value = BuildPrompt(op.event_name, op.context, op.style, EN)
        /\ Contains(ret.value, op.event_name)
        /\ Contains(ret.value, op.style)
        /\ Contains(ret.value, <<"Wikipedia-style article">>)

-----------------------------------------------------------------------------
(* C17 *)

\* The decimal digits of the lengths asked for.
DecimalOf(n) ==
    CASE n = 0 -> <<"0">>
      [] n = 100 -> <<"1", "0", "0">>
      [] n = 200 -> <<"2", "0", "0">>

\* v is text without the whitespace around it.
IsTrimOf(v, text) ==
    \E a \in 0..Len(text) :
        /\ a + Len(v) <= Len(text)
        /\ SubSeq(text, a + 1, a + Len(v)) = v
        /\ \A i \in (1..a) \cup ((a + Len(v) + 1)..Len(text)) : IsSpace(text[i])
        /\ v # <<>> => ~IsSpace(v[1]) /\ ~IsSpace(v[Len(v)])

\* C17: generate_summary, for every max_length and a supported language,
\* issues a single completion call whose user prompt contains the decimal
\* digits of max_length, and when the call returns text the operation
\* returns that text (without the whitespace around it).
C17_SummaryPromptHasLength ==
    (op.name = "summary" /\ op.language \in SUPPORTED_LANGUAGES) =>
        /\ Len(calls) = 1
        /\ calls[1].kind = "summary"
        /\ Contains(calls[1].user, DecimalOf(op.max_length))
        /\ (pc = "done" /\ calls[1].resp.kind = "ok") =>
              /\ ret.kind = "return"
              /\ IsTrimOf(ret.value, calls[1].resp.content)

\* A summary of at most 100 words has been asked for and has returned the
\* text "T x" of the response " T x\n".
C17_Witness ==
    /\ op.name = "summary"
    /\ op.max_length = 100
    /\ pc = "done"
    /\ Len(calls) = 1
    /\ calls[1].resp.kind = "ok"
    /\ ret = Return(<<"T", " ", "x">>)

-----------------------------------------------------------------------------
(* C18 *)

\* C18: once a WikiGenerator is constructed, no step of any operation
\* (article, summary, infobox, batch, article with image, citation
\* extraction and validation, a direct prompt build), succeeding or
\* failing, changes its api_key, its model or its client.
C18_ConfigurationReadOnly ==
    [][gen # NoGen =>
          /\ gen'.api_key = gen.api_key
          /\ gen'.model = gen.model
          /\ gen'.client = gen.client]_vars

\* An article with image has ended with its image step failed, on a
\* generator that still has the key and the model its construction from the
\* environment gave it.
C18_Witness ==
    /\ op.name = "with_image"
    /\ pc = "done"
    /\ Len(calls) = 2
    /\ calls[2].resp.kind = "error"
    /\ gen = InitGenerator(NoneS, <<>>, <<"sk-env">>, <<"gpt-3.5-turbo">>).obj

-----------------------------------------------------------------------------
(* The command line (src/src/cli.py): the file system, and what the batch  *)
(* command derives from its arguments.                                     *)

\* str.isalnum() of one character
IsAlnum(c) == c \in Letters \/ IsDigit(c)

\* A sanitization that puts an underscore in the place of each character it
\* does not keep.
SafeNameReplacing(event_name) ==
    LET stripped == RStrip(event_name)
    IN  [i \in 1..Len(stripped) |->
            IF IsAlnum(stripped[i]) \/ stripped[i] \in {"-", "_"} THEN stripped[i] ELSE "_"]

\* safe_name, lines 401-402
SafeName(event_name) ==
    LET kept == SelectSeq(event_name, LAMBDA c : IsAlnum(c) \/ c \in {" ", "-", "_"})
        stripped == RStrip(kept)
    IN  [i \in 1..Len(stripped) |-> IF stripped[i] = " " THEN "_" ELSE stripped[i]]

\* A path built from the subject as given.
TextPathOfRawName(output_dir, event_name) ==
    output_dir \o <<"/">> \o event_name \o <<".txt">>

\* output_path / f"{safe_name}.txt"
TextPath(output_dir, event_name) ==
    output_dir \o <<"/">> \o SafeName(event_name) \o <<".txt">>

\* The content that marks a directory in files.
DirEntry == <<"<dir>">>

IsRegularFile(fs, path) == \E f \in fs : f.path = path /\ f.content # DirEntry

\* Path.mkdir(parents=True, exist_ok=True) where no regular file is in the way
Mkdir(fs, path) ==
    {f \in fs : f.path # path} \cup {[path |-> path, content |-> DirEntry]}

\* Path.write_text(content): the file is created or replaced.
WriteFile(fs, path, content) ==
    {f \in fs : f.path # path} \cup {[path |-> path, content |-> content]}

\* sys.exit(1) after the message, and the end of a command that went through.
ExitError(msg) == [kind |-> "exit", status |-> 1, msg |-> msg]
ExitOk(msg) == [kind |-> "exit", status |-> 0, msg |-> msg]

\* A collection that keeps the blank lines of the file as empty names.
CollectEventsKeepsBlankLines(events, file) ==
    events \o (IF file.given THEN [i \in 1..Len(file.lines) |-> Strip(file.lines[i])]
               ELSE <<>>)

\* event_names = list(events), extended by the stripped non-blank lines of
\* --file, lines 369-377
CollectEvents(events, file) ==
    events \o (IF file.given THEN StripAll(file.lines) ELSE <<>>)

\* Inputs of the commands.
MuscatFestival ==
    <<"M", "u", "s", "c", "a", "t", " ", "F", "e", "s", "t", "i", "v", "a", "l">>
MuscatSlashFestival ==
    <<"M", "u", "s", "c", "a", "t", "/", "F", "e", "s", "t", "i", "v", "a", "l">>
MuscatUnderscoreFestival ==
    <<"M", "u", "s", "c", "a", "t", "_", "F", "e", "s", "t", "i", "v", "a", "l">>
CliSubjects ==
    {MuscatFestival, MuscatSlashFestival, MuscatUnderscoreFestival,
     <<".", ".", "/", "x", " ">>}

\* --file: not given, or the lines of the file it names.
CliEventFiles ==
    {[given |-> FALSE],
     [given |-> TRUE, lines |-> << <<" ", "\n">> >>],
     [given |-> TRUE, lines |-> << <<"\n">>, <<" ">> \o MuscatFestival \o <<" ", "\n">> >>]}

CliTypes == {"article", "summary", "infobox"}
OutDir == <<"o", "u", "t">>
OutFile == <<"o", "u", "t", ".", "t", "x", "t">>

\* What the service answers to a call of the batch command or of a handler.
FewResponses ==
    {[kind |-> "ok", content |-> <<"U">>], [kind |-> "error", msg |-> <<"API Error">>]}

\* The file system a command may find.
CliInitialFiles ==
    {NoFiles,
     {[path |-> OutDir, content |-> DirEntry],
      [path |-> TextPath(OutDir, MuscatFestival), content |-> <<"o", "l", "d">>]},
     {[path |-> OutDir, content |-> <<"n", "o", "t", " ", "a", " ", "d", "i", "r">>]}}

CliLocals == [i |-> 1, results |-> <<>>, article |-> <<>>, saved |-> <<>>,
              infobox |-> <<>>, summary |-> <<>>]

-----------------------------------------------------------------------------
(* The batch command, lines 361-420, with text export. *)

\* From the start of the command to the entry of batch_generate's loop.
CliBatch(events, file, type, language, output_dir, export_format, model, env_key) ==
    /\ pc = "idle"
    /\ gen = NoGen
    /\ LET event_names == CollectEvents(events, file)
           r == InitGenerator(NoneS, model, env_key, NoneS)
       IN  /\ op' = [name |-> "cli_batch", events |-> events, file |-> file,
                     event_names |-> event_names, output_type |-> type,
                     language |-> language, kwargs |-> NoKwargs,
                     output_dir |-> output_dir, export_format |-> export_format,
                     model |-> model, env_key |-> env_key]
           /\ IF event_names = <<>>
              THEN /\ ret' = ExitError(<<"Error: No events specified. Use --events or --file">>)
                   /\ pc' = "exit"
                   /\ UNCHANGED gen
              ELSE IF r.exc # NoRet
              THEN /\ ret' = ExitError(<<"Error in batch processing: ">> \o r.exc.msg)
                   /\ pc' = "exit"
                   /\ UNCHANGED gen
              ELSE /\ ret' = NoRet
                   /\ pc' = "loop"
                   /\ gen' = r.obj
    /\ calls' = <<>>
    /\ locals' = CliLocals
    /\ UNCHANGED <<files, hist, reqs>>

\* batch_generate has returned: output_path.mkdir(parents=True, exist_ok=True)
CliBatchMkdir(ok) ==
    /\ op.name = "cli_batch"
    /\ pc = "done"
    /\ op.export_format = "text"
    /\ IF ok /\ ~IsRegularFile(files, op.output_dir)
       THEN /\ files' = Mkdir(files, op.output_dir)
            /\ locals' = [locals EXCEPT !.i = 1, !.results = ret.value]
            /\ ret' = NoRet
            /\ pc' = "export"
       ELSE /\ ret' = ExitError(<<"Error in batch processing: ", "mkdir failed">>)
            /\ pc' = "exit"
            /\ UNCHANGED <<files, locals>>
    /\ UNCHANGED <<gen, op, calls, hist, reqs>>

\* A failed write that takes the files written so far away with it.
CliBatchWriteRollsBack(outcome) ==
    /\ pc = "export"
    /\ locals.i <= Len(locals.results)
    /\ LET event_name == locals.results[locals.i][1]
           content == locals.results[locals.i][2]
           file_path == TextPath(op.output_dir, event_name)
       IN  IF outcome = "written"
           THEN /\ files' = WriteFile(files, file_path, content)
                /\ locals' = [locals EXCEPT !.i = @ + 1, !.saved = Append(@, file_path)]
                /\ UNCHANGED <<ret, pc>>
           ELSE /\ ret' = ExitError(<<"Error in batch processing: ", "write failed">>)
                /\ pc' = "exit"
                /\ files' = {f \in files :
                               \A k \in 1..Len(locals.saved) : f.path # locals.saved[k]}
                /\ UNCHANGED locals
    /\ UNCHANGED <<gen, op, calls, hist, reqs>>

\* One iteration of the export loop: write_text and the "Saved" line.
\* write_text opens the file for writing and then writes: it ends "written",
\* or fails before the file is opened ("not opened", nothing changes), or
\* fails after ("truncated", the file is there and empty).
CliBatchWrite(outcome) ==
    /\ pc = "export"
    /\ locals.i <= Len(locals.results)
    /\ LET event_name == locals.results[locals.i][1]
           content == locals.results[locals.i][2]
           file_path == TextPath(op.output_dir, event_name)
       IN  IF outcome = "written"
           THEN /\ files' = WriteFile(files, file_path, content)
                /\ locals' = [locals EXCEPT !.i = @ + 1, !.saved = Append(@, file_path)]
                /\ UNCHANGED <<ret, pc>>
           ELSE /\ ret' = ExitError(<<"Error in batch processing: ", "write failed">>)
                /\ pc' = "exit"
                /\ files' = IF outcome = "truncated"
                            THEN WriteFile(files, file_path, <<>>)
                            ELSE files
                /\ UNCHANGED locals
    /\ UNCHANGED <<gen, op, calls, hist, reqs>>

\* The loop is over: "Batch processing complete! {len(results)} files generated."
CliBatchDone ==
    /\ pc = "export"
    /\ locals.i > Len(locals.results)
    /\ ret' = ExitOk(<<"Batch processing complete! ">> \o IntStr(Len(locals.results))
                     \o <<" files generated.">>)
    /\ pc' = "exit"
    /\ UNCHANGED <<gen, op, calls, locals, files, hist, reqs>>

-----------------------------------------------------------------------------
(* The full command, lines 253-311, with text format. *)

\* '=' * 80
RuleWidth == 80
Rule == [i \in 1..RuleWidth |-> "="]

\* A document that puts the summary before the infobox.
FullDocumentSummaryFirst(infobox_content, summary_content, article_content) ==
    Rule \o <<"\nSUMMARY\n">> \o Rule \o <<"\n\n">> \o summary_content \o <<"\n\n">>
    \o Rule \o <<"\nINFOBOX\n">> \o Rule \o <<"\n\n">> \o infobox_content \o <<"\n\n">>
    \o Rule \o <<"\nFULL ARTICLE\n">> \o Rule \o <<"\n\n">> \o article_content \o <<"\n">>

\* full_content of the text format, lines 278-296
FullDocument(infobox_content, summary_content, article_content) ==
    Rule \o <<"\nINFOBOX\n">> \o Rule \o <<"\n\n">> \o infobox_content \o <<"\n\n">>
    \o Rule \o <<"\nSUMMARY\n">> \o Rule \o <<"\n\n">> \o summary_content \o <<"\n\n">>
    \o Rule \o <<"\nFULL ARTICLE\n">> \o Rule \o <<"\n\n">> \o article_content \o <<"\n">>

\* What either except clause of the command leaves: the message, exit status 1.
CliFullError(e) ==
    ExitError((IF e.type = "ValueError" THEN <<"Error: ">> ELSE <<"Error generating content: ">>)
              \o e.msg)

\* From the start of the command to the infobox call.
CliFull(event_name, context, language, output, format, model, env_key) ==
    /\ pc = "idle"
    /\ gen = NoGen
    /\ op' = [name |-> "cli_full", event_name |-> event_name, context |-> context,
              language |-> language, output |-> output, format |-> format,
              model |-> model, env_key |-> env_key]
    /\ locals' = CliLocals
    /\ LET r == InitGenerator(NoneS, model, env_key, NoneS)
           c == InfoboxStart(r.obj, event_name, language)
       IN  IF r.exc # NoRet
           THEN /\ ret' = CliFullError(r.exc)
                /\ pc' = "exit"
                /\ calls' = <<>>
                /\ UNCHANGED gen
           ELSE /\ gen' = r.obj
                /\ IF c.exc # NoRet
                   THEN /\ ret' = CliFullError(c.exc)
                        /\ pc' = "exit"
                        /\ calls' = <<>>
                   ELSE /\ ret' = NoRet
                        /\ pc' = "full_infobox"
                        /\ calls' = <<c.call>>
    /\ UNCHANGED <<files, hist, reqs>>

\* generate_infobox ends; generate_summary(event_name, 200, language) starts.
CliFullInfobox(resp) ==
    /\ pc = "full_infobox"
    /\ LET r == Finish("infobox", resp)
           c == SummaryStart(gen, op.event_name, 200, op.language)
       IN  IF r.kind = "raise"
           THEN /\ ret' = CliFullError(r)
                /\ pc' = "exit"
                /\ calls' = Answered(resp)
                /\ UNCHANGED locals
           ELSE /\ locals' = [locals EXCEPT !.infobox = r.value]
                /\ calls' = Append(Answered(resp), c.call)
                /\ pc' = "full_summary"
                /\ UNCHANGED ret
    /\ UNCHANGED <<gen, op, files, hist, reqs>>

\* generate_summary ends; generate_wiki_article(event_name, context, "formal",
\* language) starts.
CliFullSummary(resp) ==
    /\ pc = "full_summary"
    /\ LET r == Finish("summary", resp)
           c == ArticleStart(gen, op.event_name, op.context, <<"formal">>, op.language)
       IN  IF r.kind = "raise"
           THEN /\ ret' = CliFullError(r)
                /\ pc' = "exit"
                /\ calls' = Answered(resp)
                /\ UNCHANGED locals
           ELSE /\ locals' = [locals EXCEPT !.summary = r.value]
                /\ calls' = Append(Answered(resp), c.call)
                /\ pc' = "full_article"
                /\ UNCHANGED ret
    /\ UNCHANGED <<gen, op, files, hist, reqs>>

\* generate_wiki_article ends; the document is formatted and written.
CliFullArticle(resp, ok) ==
    /\ pc = "full_article"
    /\ op.format = "text"
    /\ calls' = Answered(resp)
    /\ pc' = "exit"
    /\ LET r == Finish("article", resp)
       IN  IF r.kind = "raise"
           THEN /\ ret' = CliFullError(r)
                /\ UNCHANGED <<locals, files>>
           ELSE /\ locals' = [locals EXCEPT !.article = r.value]
                /\ IF ok /\ (DirEntry \notin {f.content : f \in {g \in files : g.path = op.output}})
                   THEN /\ files' = WriteFile(files, op.output,
                                              FullDocument(locals.infobox, locals.summary, r.value))
                        /\ ret' = ExitOk(<<"Complete article saved to: ">> \o op.output)
                   ELSE /\ ret' = ExitError(<<"Error generating content: ", "write failed">>)
                        /\ UNCHANGED files
    /\ UNCHANGED <<gen, op, hist, reqs>>

-----------------------------------------------------------------------------
(* One run of a command. *)

InitCli ==
    /\ gen = NoGen
    /\ op = [name |-> "none"]
    /\ pc = "idle"
    /\ calls = <<>>
    /\ locals = NoLocals
    /\ ret = NoRet
    /\ files \in CliInitialFiles
    /\ hist = NoHist
    /\ reqs = <<>>

NextCli ==
    \/ /\ pc = "idle"
       /\ \E es \in SeqsUpTo(CliSubjects, MaxEvents), f \in CliEventFiles, t \in CliTypes,
             l \in {EN, AR}, ek \in {NoneS, <<"sk-env">>} :
            CliBatch(es, f, t, l, OutDir, "text", <<"gpt-4">>, ek)
    \/ BatchIter /\ Outside
    \/ /\ pc = "batch_await"
       /\ \E r \in FewResponses : BatchRespond(r)
       /\ Outside
    \/ BatchReturn /\ Outside
    \/ /\ pc = "done"
       /\ \E ok \in BOOLEAN : CliBatchMkdir(ok)
    \/ /\ pc = "export"
       /\ \E outcome \in {"written", "not opened", "truncated"} : CliBatchWrite(outcome)
    \/ CliBatchDone
    \/ /\ pc = "idle"
       /\ \E s \in CliSubjects, c \in Contexts, l \in {EN, AR}, ek \in {NoneS, <<"sk-env">>} :
            CliFull(s, c, l, OutFile, "text", <<"gpt-4">>, ek)
    \/ /\ pc = "full_infobox"
       /\ \E r \in Responses : CliFullInfobox(r)
    \/ /\ pc = "full_summary"
       /\ \E r \in Responses : CliFullSummary(r)
    \/ /\ pc = "full_article"
       /\ \E r \in Responses, ok \in BOOLEAN : CliFullArticle(r, ok)

SpecCli == InitCli /\ [][NextCli]_vars

-----------------------------------------------------------------------------
(* C11 *)

\* The regular files of the file system.
RegularFiles == {f \in files : f.content # DirEntry}

\* The batch command has run to its end, with text export, for the subjects
\* 'Muscat Festival' and 'Muscat/Festival', and every write went through.
TwoMuscatsExported ==
    /\ op.name = "cli_batch"
    /\ op.event_names = <<MuscatFestival, MuscatSlashFestival>>
    /\ pc = "exit"
    /\ ret.status = 0

\* The paths out/Muscat_Festival.txt and out/MuscatFestival.txt.
PathUnderscore == OutDir \o <<"/">> \o MuscatUnderscoreFestival \o <<".txt">>
PathJoined ==
    OutDir \o <<"/", "M", "u", "s", "c", "a", "t", "F", "e", "s", "t", "i", "v", "a", "l", ".txt">>

\* C11 as claimed: the export of 'Muscat Festival' and 'Muscat/Festival' to
\* one directory collides: the directory ends with one file, which holds
\* the later write, and two entries are reported.
C11_AsClaimed ==
    TwoMuscatsExported =>
        /\ Len(locals.saved) = 2
        /\ Cardinality(RegularFiles) = 1
        /\ \A f \in RegularFiles : f.content = locals.results[2][2]

\* The position of the last result entry whose file is the file of entry i.
LastWriter(results, i) ==
    CHOOSE j \in i..Len(results) :
        /\ TextPath(op.output_dir, results[j][1]) = TextPath(op.output_dir, results[i][1])
        /\ \A k \in (j + 1)..Len(results) :
              TextPath(op.output_dir, results[k][1]) # TextPath(op.output_dir, results[i][1])

\* C11, corrected: the export of 'Muscat Festival' and 'Muscat/Festival' to
\* one directory does not collide: the names derived are Muscat_Festival
\* and MuscatFestival, both writes succeed, the directory ends with two
\* files, each holding the content of its subject, and two entries are
\* reported.  In every batch export that went through, one entry is
\* reported per result, and where the derived names of two subjects
\* coincide the one file holds the later write.
C11_NoCollisionForTheSlash ==
    /\ TwoMuscatsExported =>
          /\ locals.saved = <<PathUnderscore, PathJoined>>
          /\ RegularFiles = {[path |-> PathUnderscore, content |-> locals.results[1][2]],
                             [path |-> PathJoined, content |-> locals.results[2][2]]}
          /\ Contains(ret.msg, <<"2">>)
    /\ (op.name = "cli_batch" /\ pc = "exit" /\ ret.status = 0) =>
          /\ Len(locals.saved) = Len(locals.results)
          /\ \A i \in 1..Len(locals.results) :
                [path |-> locals.saved[i],
                 content |-> locals.results[LastWriter(locals.results, i)][2]] \in files

\* The two subjects were exported, the first with an error as its content
\* and the second with generated text.
C11_Witness ==
    /\ TwoMuscatsExported
    /\ locals.results[1][2] # locals.results[2][2]
    /\ Cardinality(RegularFiles) = 2

\* 'Muscat Festival' and 'Muscat_Festival' were exported, with different
\* contents, and one file holds the later one.
C11_CollisionWitness ==
    /\ op.name = "cli_batch"
    /\ op.event_names = <<MuscatFestival, MuscatUnderscoreFestival>>
    /\ pc = "exit"
    /\ ret.status = 0
    /\ locals.results[1][2] # locals.results[2][2]
    /\ RegularFiles = {[path |-> PathUnderscore, content |-> locals.results[2][2]]}

-----------------------------------------------------------------------------
(* C20 *)

\* The full command has written its document, in text format.
FullWritten == op.name = "cli_full" /\ op.format = "text" /\ pc = "exit" /\ ret.status = 0

\* What is left of a document when its rules and line breaks are left out.
WithoutRules(doc) == SelectSeq(doc, LAMBDA t : t \notin {"=", "\n\n", "\n"})

\* C20: the document the full command writes in text format holds the
\* infobox text, the summary text and the article text (the texts of the
\* three responses, trimmed) each once, in the order infobox, summary,
\* article, each under its heading: its rules and line breaks left out, the
\* document reads INFOBOX, the infobox, SUMMARY, the summary, FULL ARTICLE,
\* the article.
C20_FullDocumentOrder ==
    FullWritten =>
        /\ Len(calls) = 3
        /\ calls[1].kind = "infobox" /\ calls[2].kind = "summary" /\ calls[3].kind = "article"
        /\ \E f \in files :
              /\ f.path = op.output
              /\ WithoutRules(f.content) =
                    <<"\nINFOBOX\n">> \o Strip(calls[1].resp.content)
                    \o <<"\nSUMMARY\n">> \o Strip(calls[2].resp.content)
                    \o <<"\nFULL ARTICLE\n">> \o Strip(calls[3].resp.content)

\* A document has been written whose infobox and article are "T x" and
\* whose summary is "U".
C20_Witness ==
    /\ FullWritten
    /\ Strip(calls[1].resp.content) = <<"T", " ", "x">>
    /\ Strip(calls[2].resp.content) = <<"U">>
    /\ Strip(calls[3].resp.content) = <<"T", " ", "x">>
    /\ \E f \in files : f.path = op.output /\ Len(f.content) > 6 * RuleWidth

-----------------------------------------------------------------------------
(* The HTTP surface (src/src/web.py).  gen is the module global generator, *)
(* NoGen where it is None; calls is the log of the completion calls of     *)
(* all requests; hist.constructed counts the WikiGenerator objects built.  *)
(* reqs holds one frame per request that has arrived: its route and body,  *)
(* where its handler stands (arrived, construct, generate, await, done),   *)
(* the handler's local gen with the number of the instance it is, whether  *)
(* the handler tried to construct, its completion call and its answer.     *)

WebRequests ==
    {[route |-> "article", event_name |-> <<"a">>, context |-> NoneS,
      style |-> <<"formal">>, language |-> EN],
     [route |-> "summary", event_name |-> <<"a">>, max_length |-> 200, language |-> FR],
     [route |-> "infobox", event_name |-> <<"b", " ", "c">>, language |-> AR],
     [route |-> "languages"]}

NewFrame(request) ==
    [request |-> request, pc |-> "arrived", gen |-> NoGen, instance |-> 0,
     attempted |-> FALSE, call |-> 0, status |-> 0, body |-> <<>>]

\* Handlers that run side by side, as functions declared with def would in
\* a thread pool.
LoopAlwaysFree == TRUE

\* The event loop can start a handler: every handler is an async def
\* without an await, so one that has started runs to its end first.
LoopFree == \A i \in 1..Len(reqs) : reqs[i].pc \in {"arrived", "done"}

\* The handler's answer.
Answer(frame, status, body) == [frame EXCEPT !.pc = "done", !.status = status, !.body = body]

\* The start of the operation a route calls, with the handler's generator.
WebStart(g, request) ==
    CASE request.route = "article" ->
            ArticleStart(g, request.event_name, request.context, request.style,
                         request.language)
      [] request.route = "summary" ->
            SummaryStart(g, request.event_name, request.max_length, request.language)
      [] request.route = "infobox" ->
            InfoboxStart(g, request.event_name, request.language)

\* A request arrives.
WebArrive(request) ==
    /\ Len(reqs) < MaxRequests
    /\ reqs' = Append(reqs, NewFrame(request))
    /\ UNCHANGED <<gen, op, pc, calls, locals, ret, files, hist>>

\* The handler of request i starts: get_generator() tests the global.
WebEnter(i) ==
    /\ LoopFree
    /\ reqs[i].pc = "arrived"
    /\ reqs' = [reqs EXCEPT ![i] =
                  IF gen = NoGen
                  THEN [@ EXCEPT !.pc = "construct"]
                  ELSE [@ EXCEPT !.pc = "generate", !.gen = gen,
                                 !.instance = hist.constructed]]
    /\ UNCHANGED <<gen, op, pc, calls, locals, ret, files, hist>>

\* generator = WikiGenerator(), with OPENAI_API_KEY as load_dotenv() and the
\* environment give it at this attempt; a failure leaves the global as it is
\* and is answered with status 500.
WebConstruct(i, env_key) ==
    /\ reqs[i].pc = "construct"
    /\ LET r == InitGenerator(NoneS, DefaultModel, env_key, NoneS)
       IN  IF r.exc # NoRet
           THEN /\ reqs' = [reqs EXCEPT ![i] =
                             Answer([@ EXCEPT !.attempted = TRUE], 500,
                                    IF @.request.route = "languages"
                                    THEN <<"Internal Server Error">> ELSE r.exc.msg)]
                /\ UNCHANGED <<gen, hist>>
           ELSE /\ gen' = r.obj
                /\ hist' = [hist EXCEPT !.constructed = @ + 1]
                /\ reqs' = [reqs EXCEPT ![i] =
                             [@ EXCEPT !.pc = "generate", !.attempted = TRUE, !.gen = r.obj,
                                       !.instance = hist.constructed + 1]]
    /\ UNCHANGED <<op, pc, calls, locals, ret, files>>

\* The handler goes on with its generator, up to the completion call.
WebGenerate(i) ==
    /\ reqs[i].pc = "generate"
    /\ IF reqs[i].request.route = "languages"
       THEN /\ reqs' = [reqs EXCEPT ![i] = Answer(@, 200, SUPPORTED_LANGUAGES)]
            /\ UNCHANGED calls
       ELSE LET r == WebStart(reqs[i].gen, reqs[i].request)
            IN  IF r.exc # NoRet
                THEN /\ reqs' = [reqs EXCEPT ![i] = Answer(@, 500, r.exc.msg)]
                     /\ UNCHANGED calls
                ELSE /\ calls' = Append(calls, r.call)
                     /\ reqs' = [reqs EXCEPT ![i] =
                                  [@ EXCEPT !.pc = "await", !.call = Len(calls) + 1]]
    /\ UNCHANGED <<gen, op, pc, locals, ret, files, hist>>

\* create() returns or raises, and the handler answers.
WebRespond(i, resp) ==
    /\ reqs[i].pc = "await"
    /\ calls' = [calls EXCEPT ![reqs[i].call].resp = resp]
    /\ LET r == Finish(reqs[i].request.route, resp)
       IN  reqs' = [reqs EXCEPT ![i] =
                      IF r.kind = "raise" THEN Answer(@, 500, r.msg)
                      ELSE Answer(@, 200, r.value)]
    /\ UNCHANGED <<gen, op, pc, locals, ret, files, hist>>

InitWeb ==
    /\ gen = NoGen
    /\ op = [name |-> "none"]
    /\ pc = "idle"
    /\ calls = <<>>
    /\ locals = NoLocals
    /\ ret = NoRet
    /\ files = NoFiles
    /\ hist = NoHist
    /\ reqs = <<>>

NextWeb ==
    \/ /\ Len(reqs) < MaxRequests
       /\ \E request \in WebRequests : WebArrive(request)
    \/ \E i \in 1..Len(reqs) : WebEnter(i)
    \/ \E i \in 1..Len(reqs) : /\ reqs[i].pc = "construct"
                                /\ \E ek \in {NoneS, <<"sk-env">>, <<"sk-new">>} : WebConstruct(i, ek)
    \/ \E i \in 1..Len(reqs) : WebGenerate(i)
    \/ \E i \in 1..Len(reqs) : /\ reqs[i].pc = "await"
                                /\ \E r \in FewResponses : WebRespond(i, r)

SpecWeb == InitWeb /\ [][NextWeb]_vars

-----------------------------------------------------------------------------
(* POST /export (web.py lines 437-491).  The handler does not use the      *)
(* generator; ExportFormatter (src/exporters.py) is not among the sources. *)

\* The requests of the export route; a section not supplied is None.
ExportRequests ==
    {[route |-> "export", article |-> <<"A">>, title |-> <<"t">>, format |-> f,
      infobox |-> NoneS, summary |-> <<"S">>, style |-> <<"wikipedia">>] :
        f \in {<<"markdown">>, <<"html">>, <<"pdf">>, <<"docx">>, <<"text">>}}
    \cup {[route |-> "export", article |-> <<"A">>, title |-> <<"t">>,
           format |-> <<"markdown">>, infobox |-> <<"I">>, summary |-> NoneS,
           style |-> <<"wikipedia">>]}

\* ExportFormatter.to_markdown / to_html / to_pdf: the title and the sections
\* supplied, in the order infobox, summary, article.
ExportFormatter(request) ==
    <<"<">> \o request.format \o <<">">> \o request.title
    \o (IF request.infobox = NoneS THEN <<>> ELSE request.infobox)
    \o (IF request.summary = NoneS THEN <<>> ELSE request.summary)
    \o request.article

\* str(e) of HTTPException(status_code=..., detail=...): "<status>: <detail>"
\* where the installed starlette defines __str__, the empty string where it
\* does not (the exception is built with keyword arguments only).
HTTPExceptionStr(status, detail, has_str) ==
    IF has_str THEN <<status, ": ">> \o detail ELSE <<>>

\* The else branch, line 488, and the except clause it runs into, lines
\* 490-491: [status, body] of the answer.
ExportUnsupported(request, has_str) ==
    [status |-> 500,
     body |-> HTTPExceptionStr("400", <<"Unsupported format: ">> \o request.format, has_str)]

\* The handler of an export request, from its start to its answer; ok tells
\* whether the formatter returned, has_str which str() the exception has.
WebExport(i, ok, has_str) ==
    /\ LoopFree
    /\ reqs[i].pc = "arrived"
    /\ reqs[i].request.route = "export"
    /\ LET request == reqs[i].request
           path == <<"<tmp>", IntStr(i), ".pdf">>
       IN  IF request.format \in {<<"markdown">>, <<"html">>}
           THEN /\ reqs' = [reqs EXCEPT ![i] =
                             IF ok THEN Answer(@, 200, ExportFormatter(request))
                             ELSE Answer(@, 500, <<"export failed">>)]
                /\ UNCHANGED files
           ELSE IF request.format = <<"pdf">>
           THEN /\ reqs' = [reqs EXCEPT ![i] =
                             IF ok THEN Answer(@, 200, path)
                             ELSE Answer(@, 500, <<"export failed">>)]
                /\ files' = files \cup
                      {[path |-> path,
                        content |-> IF ok THEN ExportFormatter(request) ELSE <<>>]}
           ELSE /\ reqs' = [reqs EXCEPT ![i] =
                             LET a == ExportUnsupported(request, has_str)
                             IN  Answer(@, a.status, a.body)]
                /\ UNCHANGED files
    /\ UNCHANGED <<gen, op, pc, calls, locals, ret, hist>>

NextExport ==
    \/ /\ Len(reqs) < MaxRequests
       /\ \E request \in ExportRequests : WebArrive(request)
    \/ \E i \in 1..Len(reqs) : /\ reqs[i].pc = "arrived"
                                /\ \E ok \in BOOLEAN, has_str \in BOOLEAN : WebExport(i, ok, has_str)

SpecExport == InitWeb /\ [][NextExport]_vars

-----------------------------------------------------------------------------
(* C19 *)

\* The requests whose handler has got a generator from get_generator().
Served == {i \in 1..Len(reqs) : reqs[i].instance # 0}

\* C19: in the HTTP surface at most one WikiGenerator is ever constructed
\* with success; the global is set exactly when one has been; it is built
\* by a request (none is built before the first request that needs it);
\* every request that gets a generator gets that one instance, the global;
\* a request whose construction failed was answered with status 500 and
\* left the global as it was, unset unless another request's construction
\* succeeded; and every request that found the global unset attempted a
\* construction, while no request that found it set did.
C19_OneGeneratorLazily ==
    /\ hist.constructed <= 1
    /\ (gen = NoGen) <=> (hist.constructed = 0)
    /\ gen # NoGen => \E i \in Served : reqs[i].attempted
    /\ \A i \in Served : reqs[i].instance = 1 /\ reqs[i].gen = gen
    /\ Cardinality({i \in Served : reqs[i].attempted}) <= 1
    /\ \A i \in 1..Len(reqs) :
          /\ (reqs[i].attempted /\ i \notin Served) =>
                reqs[i].pc = "done" /\ reqs[i].status = 500
          /\ (reqs[i].pc \in {"generate", "await", "done"}) =>
                (i \in Served \/ reqs[i].attempted)
          /\ reqs[i].call # 0 =>
                /\ calls[reqs[i].call].api_key = gen.api_key
                /\ calls[reqs[i].call].model = gen.model
    /\ (\A i \in 1..Len(reqs) : i \notin Served) => gen = NoGen

\* The first request failed to construct the generator, the second
\* constructed it, and the third was served by the same instance.
C19_Witness ==
    /\ Len(reqs) = 3
    /\ reqs[1].attempted /\ reqs[1].status = 500 /\ reqs[1].instance = 0
    /\ reqs[2].attempted /\ reqs[2].instance = 1 /\ reqs[2].status = 200
    /\ ~reqs[3].attempted /\ reqs[3].instance = 1 /\ reqs[3].status = 200
    /\ reqs[3].call # 0

-----------------------------------------------------------------------------
(* A batch that cannot generate anything. *)

\* The batch asks for an output type or a language the generator does not have.
BatchCannotGenerate ==
    /\ op.name = "batch"
    /\ \/ op.output_type \notin {"article", "summary", "infobox"}
       \/ op.language \notin {<<"e", "n">>, <<"a", "r">>}

\* C21: batch_generate called with an output type other than article, summary
\* and infobox, or with an unsupported language, does not raise and issues no
\* completion call at any moment; when it ends it returns a mapping whose keys
\* are the input subjects and whose every value is an error string.
C21_InvalidBatchOnlyErrors ==
    BatchCannotGenerate =>
        /\ calls = <<>>
        /\ ret.kind # "raise"
        /\ pc # "batch_await"
        /\ pc = "done" =>
              /\ ret.kind = "return"
              /\ DictKeys(ret.value) = FirstOccurrences(op.event_names)
              /\ \A i \in 1..Len(op.event_names) :
                    /\ DictHas(ret.value, op.event_names[i])
                    /\ Head(DictGet(ret.value, op.event_names[i])) = "Error: "

C21_Witness ==
    /\ op.name = "batch"
    /\ pc = "done"
    /\ op.output_type = "other"
    /\ op.language = <<"e", "n">>
    /\ op.event_names = <<<<"a">>, <<"b", " ", "c">>, <<>>>>
    /\ Len(ret.value) = 3
    /\ DictGet(ret.value, <<"a">>) = <<"Error: ", "Unknown output type: ", "other">>

\* The same for a language outside the supported ones.
C21_WitnessLanguage ==
    /\ op.name = "batch"
    /\ pc = "done"
    /\ op.output_type = "summary"
    /\ op.language = <<"f", "r">>
    /\ Len(op.event_names) = 2
    /\ Len(ret.value) = 2

-----------------------------------------------------------------------------
(* generate_with_image: the order of its two calls. *)

\* C22: generate_with_image issues the article call first and the
\* image-description call only after the article call has succeeded: when the
\* article step fails (before or in its call) the operation raises and no
\* image-description call is issued; when it succeeds, exactly two completion
\* calls are issued in all, the article call and then the image call.
C22_ArticleThenImage ==
    op.name = "with_image" =>
        /\ Len(calls) <= 2
        /\ \A i \in 1..Len(calls) : calls[i].kind = IF i = 1 THEN "article" ELSE "image"
        /\ Len(calls) = 2 => calls[1].resp.kind = "ok"
        /\ (Len(calls) = 1 /\ calls[1].resp.kind # "pending") =>
              /\ calls[1].resp.kind # "ok"
              /\ pc = "done"
              /\ ret.kind = "raise"
        /\ calls = <<>> => (pc = "done" /\ ret.kind = "raise")
        /\ pc = "done" =>
              IF ret.kind = "raise"
              THEN Len(calls) <= 1
              ELSE /\ Len(calls) = 2
                   /\ calls[2].resp.kind # "pending"

\* The article call failed and the operation ended with one call.
C22_Witness ==
    /\ op.name = "with_image"
    /\ pc = "done"
    /\ Len(calls) = 1
    /\ calls[1].resp.kind = "error"
    /\ ret.kind = "raise"

\* The article call succeeded and the operation ended with two calls.
C22_WitnessTwoCalls ==
    /\ op.name = "with_image"
    /\ pc = "done"
    /\ Len(calls) = 2
    /\ calls[2].resp.kind = "ok"

-----------------------------------------------------------------------------
(* The system directive of each call. *)

\* The language a system directive is written in: the code holds one Arabic
\* directive (line 86); every other system message it sends is English.
DirectiveLanguage(system) ==
    IF system = <<"<ar: You are an expert Wikipedia article writer specializing in Omani history, culture, and events. Write comprehensive, well-structured, and factual articles.>">>
    THEN <<"a", "r">>
    ELSE <<"e", "n">>

\* The operation under way takes a language and was given a supported one.
HasRequestLanguage ==
    /\ op.name \in {"article", "summary", "infobox", "with_image", "batch"}
    /\ op.language \in {<<"e", "n">>, <<"a", "r">>}

\* C23: the system directive of every completion call is in the language of
\* the request, Arabic for ar and English for en, for the article, summary,
\* infobox and image-description calls alike.
C23_AsClaimed ==
    HasRequestLanguage =>
        \A i \in 1..Len(calls) : DirectiveLanguage(calls[i].system) = op.language

\* What holds of the code: the article, summary and infobox calls carry the
\* directive of the request language; the image-description call carries one
\* fixed English directive whatever the language.
C23_DirectiveOfTextCalls ==
    HasRequestLanguage =>
        \A i \in 1..Len(calls) :
            IF calls[i].kind = "image"
            THEN DirectiveLanguage(calls[i].system) = <<"e", "n">>
            ELSE DirectiveLanguage(calls[i].system) = op.language

\* An Arabic request whose image-description call has been issued.
C23_ArabicImageCall ==
    /\ op.name = "with_image"
    /\ op.language = <<"a", "r">>
    /\ Len(calls) = 2
    /\ calls[2].kind = "image"
    /\ DirectiveLanguage(calls[1].system) = <<"a", "r">>
    /\ DirectiveLanguage(calls[2].system) = <<"e", "n">>

-----------------------------------------------------------------------------
(* extract_citations: the reference block. *)

\* The part of s before its first blank line (all of s if it has none).
RECURSIVE UpToBlankLine(_)
UpToBlankLine(s) ==
    IF s = <<>> THEN <<>>
    ELSE IF Len(s) >= 2 /\ s[1] = "\n" /\ s[2] = "\n" THEN <<>>
    ELSE <<s[1]>> \o UpToBlankLine(Tail(s))

\* The text after the first newline of s (empty if s has no newline).
RECURSIVE AfterFirstNewline(_)
AfterFirstNewline(s) ==
    IF s = <<>> THEN <<>>
    ELSE IF s[1] = "\n" THEN Tail(s)
    ELSE AfterFirstNewline(Tail(s))

\* The text without the whitespace it starts with.
RECURSIVE WithoutLeadingBlanks(_)
WithoutLeadingBlanks(s) ==
    IF s # <<>> /\ s[1] \in {" ", "\n", "\t"} THEN WithoutLeadingBlanks(Tail(s)) ELSE s

\* The article of this shape has a header the pattern accepts: a header word
\* followed on its line by whitespace only.
HeaderAccepted(sh) ==
    /\ sh.header # <<>>
    /\ sh.header_end # <<":", "\n">>

\* The header word also stands, on a line of its own, in the text before the
\* header: that earlier line is then the first header.
EarlierHeader(sh) == sh.prefix = <<"references", "\n", "x", "\n", "\n">>

\* The lines of the list es with rest appended to the last one, each trimmed.
EntriesWith(es, rest) ==
    [i \in 1..Len(es) |-> Trimmed(IF i = Len(es) THEN es[i] \o rest ELSE es[i])]

\* The reference block read as the text from the line after the header line
\* up to the next blank line or the end.
BlockAsClaimed(sh) ==
    UpToBlankLine(AfterFirstNewline(sh.header_end \o ListText(sh.style, sh.entries)
                                      \o sh.suffix))

\* C24 as stated: the block is all text after the References header up to the
\* next blank line or the end of the text, and the call returns the trimmed
\* list segments of that block in order.
C24_AsClaimed ==
    (/\ op.name = "extract_citations"
     /\ pc = "done"
     /\ HeaderAccepted(op.shape)
     /\ ~EarlierHeader(op.shape))
        => ret.value = StripAll(FindAll(BlockAsClaimed(op.shape), 1))

\* C24: extract_citations takes as the reference block the text that starts
\* after the first References header and the whitespace following it (blank
\* lines directly after the header included) and runs up to the next blank
\* line or the end of the text; it returns the list entries of that block,
\* whatever their marker (number, hyphen, star), trimmed and in order, the
\* last one with the lines that follow it in the block; list entries after
\* the blank line that ends the block are never returned.
C24_BlockAfterHeaderBlanks ==
    (op.name = "extract_citations" /\ pc = "done") =>
        /\ ret.kind = "return"
        /\ IF EarlierHeader(op.shape) \/ ~HeaderAccepted(op.shape)
           THEN ret.value = <<>>
           ELSE IF op.shape.entries # <<>>
           THEN /\ ret.value = EntriesWith(op.shape.entries, UpToBlankLine(op.shape.suffix))
                /\ Len(ret.value) = Len(op.shape.entries)
                /\ \A i \in 1..Len(ret.value) : ~Contains(ret.value[i], <<"z">>)
                       \/ op.shape.suffix = <<"\n", "z">>
           ELSE ret.value
                  = StripAll(FindAll(UpToBlankLine(WithoutLeadingBlanks(op.shape.suffix)), 1))

\* A list that ends at a blank line, followed by a further list entry that is
\* not returned.
C24_Witness ==
    /\ op.name = "extract_citations"
    /\ pc = "done"
    /\ op.shape.header = <<"References">>
    /\ op.shape.header_end = <<"\n", "\n">>
    /\ op.shape.style = "*"
    /\ op.shape.entries = <<<<"a">>, <<"b", "-", "c", " ">>>>
    /\ op.shape.suffix = <<"\n", "\n", "-", " ", "z">>
    /\ ret.value = <<<<"a">>, <<"b", "-", "c">>>>

\* A header followed by blank lines only and then a list: the list is returned.
C24_WitnessBlankLinesAfterHeader ==
    /\ op.name = "extract_citations"
    /\ pc = "done"
    /\ op.shape.prefix = <<>>
    /\ op.shape.header = <<"References">>
    /\ op.shape.header_end = <<"\n">>
    /\ op.shape.entries = <<>>
    /\ op.shape.suffix = <<"\n", "\n", "-", " ", "z">>
    /\ ret.value = <<<<"z">>>>

-----------------------------------------------------------------------------
(* The batch command: the names of the files it writes. *)

\* The text with each space turned into an underscore.
SpacesToUnderscores(s) == [i \in 1..Len(s) |-> IF s[i] = " " THEN "_" ELSE s[i]]

\* The characters of the subject that are alphanumerics, spaces, hyphens or
\* underscores, in their order.
RECURSIVE KeptCharacters(_)
KeptCharacters(s) ==
    IF s = <<>> THEN <<>>
    ELSE IF s[1] \in WordChars \cup {" ", "-"}
    THEN <<s[1]>> \o KeptCharacters(Tail(s))
    ELSE KeptCharacters(Tail(s))

\* The text without the spaces it ends with.
RECURSIVE WithoutTrailingSpaces(_)
WithoutTrailingSpaces(s) ==
    IF s # <<>> /\ s[Len(s)] = " "
    THEN WithoutTrailingSpaces(SubSeq(s, 1, Len(s) - 1))
    ELSE s

\* path names a file that lies directly in the directory dir.
DirectlyInside(path, dir) ==
    /\ Len(path) > Len(dir) + 1
    /\ SubSeq(path, 1, Len(dir)) = dir
    /\ path[Len(dir) + 1] = "/"
    /\ \A i \in (Len(dir) + 2)..Len(path) : path[i] \notin {"/", "\\", ".", ".."}

\* The batch command is exporting, or has ended, with text export.
BatchExporting == op.name = "cli_batch" /\ pc \in {"export", "exit"}

\* C25 as stated: the name of the file of each subject is the subject without
\* the characters other than alphanumerics, space, hyphen and underscore, with
\* its spaces turned into underscores.
C25_AsClaimed ==
    BatchExporting =>
        \A k \in 1..Len(locals.saved) :
            locals.saved[k]
              = op.output_dir \o <<"/">>
                \o SpacesToUnderscores(KeptCharacters(locals.results[k][1])) \o <<".txt">>

\* C25: for every subject exported by the batch command, the file name is the
\* subject without the characters other than alphanumerics, space, hyphen and
\* underscore, then without the spaces left at its end, with the remaining
\* spaces turned into underscores; the name holds only alphanumerics, hyphens
\* and underscores, and every file the command writes lies directly in the
\* output directory.
C25_SafeFileNames ==
    BatchExporting =>
        /\ \A k \in 1..Len(locals.saved) :
              LET name == SpacesToUnderscores(
                              WithoutTrailingSpaces(KeptCharacters(locals.results[k][1])))
              IN  /\ locals.saved[k] = op.output_dir \o <<"/">> \o name \o <<".txt">>
                  /\ \A i \in 1..Len(name) : name[i] \in WordChars \cup {"-"}
                  /\ DirectlyInside(locals.saved[k], op.output_dir)
                  /\ \E f \in files : f.path = locals.saved[k] /\ f.content # DirEntry
        /\ \A f \in files :
              \/ f \in UNION CliInitialFiles
              \/ f = [path |-> op.output_dir, content |-> DirEntry]
              \/ /\ DirectlyInside(f.path, op.output_dir)
                 /\ \E k \in 1..Len(locals.results) :
                       f.path = op.output_dir \o <<"/">>
                                \o SpacesToUnderscores(WithoutTrailingSpaces(
                                       KeptCharacters(locals.results[k][1])))
                                \o <<".txt">>

\* The subject '../x ' was exported to out/x.txt.
C25_Witness ==
    /\ op.name = "cli_batch"
    /\ pc = "exit"
    /\ ret.status = 0
    /\ op.event_names = <<MuscatSlashFestival, <<".", ".", "/", "x", " ">>>>
    /\ locals.saved[2] = <<"o", "u", "t", "/", "x", ".txt">>
    /\ \E f \in files : f.path = <<"o", "u", "t", "/", "x", ".txt">> /\ f.content = <<"U">>

-----------------------------------------------------------------------------
(* POST /export with a format it does not have. *)

\* Request i asks for an export in a format other than markdown, html and
\* pdf, and has been answered.
UnsupportedExportAnswered(i) ==
    /\ reqs[i].request.route = "export"
    /\ reqs[i].request.format \notin {<<"markdown">>, <<"html">>, <<"pdf">>}
    /\ reqs[i].pc = "done"

\* C26: a POST /export whose format is not markdown, html or pdf is answered
\* with status 400 and the detail 'Unsupported format: <format>'.
C26_AsClaimed ==
    \A i \in 1..Len(reqs) :
        UnsupportedExportAnswered(i) =>
            /\ reqs[i].status = 400
            /\ reqs[i].body = <<"Unsupported format: ">> \o reqs[i].request.format

\* What the handler does: such a request is answered with status 500, the
\* detail being the text of the HTTPException raised in the else branch; no
\* file is written for it.
C26_UnsupportedFormatIs500 ==
    \A i \in 1..Len(reqs) :
        UnsupportedExportAnswered(i) =>
            /\ reqs[i].status = 500
            /\ reqs[i].body \in {<<>>, <<"400", ": ", "Unsupported format: ">>
                                          \o reqs[i].request.format}
            /\ \A f \in files : f.path # <<"<tmp>", IntStr(i), ".pdf">>

\* A request for docx was answered after one for markdown.
C26_UnsupportedAnswered ==
    /\ Len(reqs) = 2
    /\ reqs[1].status = 200
    /\ UnsupportedExportAnswered(2)
    /\ reqs[2].request.format = <<"docx">>
    /\ reqs[2].status = 500

-----------------------------------------------------------------------------
(* The batch command: its writes, one after the other. *)

\* The export loop of the batch command ended at a write that failed.
WriteFailed ==
    /\ op.name = "cli_batch"
    /\ pc = "exit"
    /\ ret.msg = <<"Error in batch processing: ", "write failed">>

\* The content of the file at path.
ContentAt(path) == (CHOOSE f \in files : f.path = path).content

\* The last of the first n result entries whose file is the file of entry k.
LastWriterAmong(n, k) ==
    CHOOSE j \in k..n :
        /\ locals.saved[j] = locals.saved[k]
        /\ \A m \in (j + 1)..n : locals.saved[m] # locals.saved[k]

\* C27: the batch command with text export writes its files one per result
\* entry in the order of the results, the entries holding an error string
\* included; when a write fails, the command exits with status 1 and every
\* file written before is still in place: it exists, and it holds what was
\* last written to it unless it is the very file the failed write opened.
C27_WritesInOrderNotUndone ==
    (op.name = "cli_batch" /\ (pc = "export" \/ WriteFailed)) =>
        /\ Len(locals.saved) = locals.i - 1
        /\ \A k \in 1..Len(locals.saved) :
              /\ locals.saved[k]
                   = op.output_dir \o <<"/">> \o SafeName(locals.results[k][1]) \o <<".txt">>
              /\ IsRegularFile(files, locals.saved[k])
              /\ \/ ContentAt(locals.saved[k])
                       = locals.results[LastWriterAmong(Len(locals.saved), k)][2]
                 \/ /\ WriteFailed
                    /\ locals.saved[k] = TextPath(op.output_dir, locals.results[locals.i][1])
                    /\ ContentAt(locals.saved[k]) = <<>>
        /\ WriteFailed =>
              /\ ret.status = 1
              /\ locals.i <= Len(locals.results)

\* The file of a first entry that holds an error string was written, and the
\* write of the second entry failed.
C27_Witness ==
    /\ WriteFailed
    /\ Len(locals.results) = 2
    /\ locals.i = 2
    /\ Head(locals.results[1][2]) = "Error: "
    /\ locals.saved[1] # TextPath(op.output_dir, locals.results[2][1])
    /\ ContentAt(locals.saved[1]) = locals.results[1][2]
    /\ ret.status = 1

-----------------------------------------------------------------------------
(* The batch command: its subject list. *)

\* The lines that are not blank, each trimmed, in their order.
RECURSIVE NonBlankTrimmed(_)
NonBlankTrimmed(lines) ==
    IF lines = <<>> THEN <<>>
    ELSE (IF Trimmed(lines[1]) = <<>> THEN <<>> ELSE <<Trimmed(lines[1])>>)
         \o NonBlankTrimmed(Tail(lines))

\* C28: the subject list of the batch command is the --events values followed
\* by the non-blank lines of --file, trimmed, in that order, and the items of
\* the batch are generated in that order; when the list is empty the command
\* exits with status 1 and has constructed no generator, issued no completion
\* call and left the file system as it found it (no output directory made).
C28_SubjectListAndEmptyExit ==
    op.name = "cli_batch" =>
        /\ op.event_names
             = op.events \o (IF op.file.given THEN NonBlankTrimmed(op.file.lines) ELSE <<>>)
        /\ \A k \in 1..Len(calls) : Contains(calls[k].user, op.event_names[k])
        /\ op.event_names = <<>> =>
              /\ pc = "exit"
              /\ ret.status = 1
              /\ ret.msg = <<"Error: No events specified. Use --events or --file">>
              /\ gen = NoGen
              /\ calls = <<>>
              /\ files \in CliInitialFiles

\* No --events and a file of blank lines only, with a key in the environment
\* and no output directory yet.
C28_Witness ==
    /\ op.name = "cli_batch"
    /\ op.events = <<>>
    /\ op.file.given
    /\ Len(op.file.lines) = 1
    /\ op.env_key = <<"sk-env">>
    /\ files = {}
    /\ pc = "exit"
    /\ ret.status = 1

\* Two --events values and a file with one subject among blank lines, all
\* three generated in that order.
C28_WitnessOrder ==
    /\ op.name = "cli_batch"
    /\ op.events = <<MuscatSlashFestival, MuscatUnderscoreFestival>>
    /\ op.file.given
    /\ op.event_names = <<MuscatSlashFestival, MuscatUnderscoreFestival, MuscatFestival>>
    /\ Len(calls) = 3
    /\ pc = "exit"
    /\ ret.status = 0

====
